---- MODULE Spec2Model ----
(***************************************************************************)
(* Verification model of the PrivInspect domain classifier.                *)
(*                                                                         *)
(* A domain is a sequence of one-character strings.  The module models     *)
(*   - isThirdPartyDomain, extractDomainKeywords, getBaseDomain and        *)
(*     isKnownTracker of the keyword-heuristic tracker detection module,   *)
(*   - isThirdPartyDomain of client/src/utils/trackerDetection.ts,         *)
(* and the string primitives of JavaScript they are built from.            *)
(***************************************************************************)
EXTENDS Integers, Sequences, FiniteSets, TLC

VARIABLES requestDomain, pageDomain, knownTrackers, op, result, url,
          pc, phase, loopParts, partIdx, kwIter, loopKeywords, loopPageKeywords,
          calls, tasks,
          tabNetworkRequests, recorded, skipped,
          cleared, dropped, msg, networkRequests, analyticsFlags,
          token, currentTime, storedToken, popup, backendCalls, retry

\* the arguments, the tracker Set and the outcome of a classifier call
classifierVars == <<requestDomain, pageDomain, knownTrackers, op, result>>

\* the position and the locals of a call of isThirdPartyDomain that is
\* followed statement by statement
loopVars == <<pc, phase, loopParts, partIdx, kwIter, loopKeywords, loopPageKeywords>>

\* the calls made so far, each with its arguments and its return value
seqVars == <<calls>>

\* the evaluations of the observed domains of a page, one task per domain
taskVars == <<tasks>>

\* the background worker: the Map of the requests stored per tab, and for
\* the properties the requests recorded per tab since the start and the
\* number of events the listener skipped
workerVars == <<tabNetworkRequests, recorded, skipped>>

\* the message handlers of the background worker and of the content script:
\* the message being answered with the responses sent for it, the array of
\* the requests the content script saw and its analytics flags, and for the
\* properties the number of requests recorded per tab when the tab's entry
\* was last deleted and the requests the listeners did not record
extensionVars == <<cleared, dropped, msg, networkRequests, analyticsFlags>>

\* the argument of a call of ApiService.isTokenValid and the time of the
\* call, in seconds
tokenVars == <<token, currentTime>>

\* the popup's analysis flow: the token in chrome.storage, the position and
\* the state of authenticateAndAnalyze, and the requests sent so far
popupVars == <<storedToken, popup, backendCalls>>

\* a call of makeRequestWithRetry
retryVars == <<retry>>

\* the parts of the extension outside the message handlers
apiVars == <<tokenVars, popupVars, retryVars>>

\* the parts of the extension outside the background worker's Map
clientVars == <<extensionVars, apiVars>>

\* the state outside the classifier functions
restVars == <<seqVars, taskVars, workerVars, clientVars>>

\* the state the classifier calls on a pair of domains leave alone
auxVars == <<url, loopVars, restVars>>

vars == <<classifierVars, auxVars>>

(***************************************************************************)
(* Fixed tables of the program                                             *)
(***************************************************************************)

\* the module-level Set of tracker domains
KNOWN_TRACKERS ==
    { <<"g", "o", "o", "g", "l", "e", "-", "a", "n", "a", "l", "y", "t", "i", "c", "s", ".", "c", "o", "m">>,
      <<"g", "o", "o", "g", "l", "e", "t", "a", "g", "m", "a", "n", "a", "g", "e", "r", ".", "c", "o", "m">>,
      <<"g", "o", "o", "g", "l", "e", "a", "d", "s", "e", "r", "v", "i", "c", "e", "s", ".", "c", "o", "m">>,
      <<"d", "o", "u", "b", "l", "e", "c", "l", "i", "c", "k", ".", "n", "e", "t">>,
      <<"f", "a", "c", "e", "b", "o", "o", "k", ".", "c", "o", "m">>,
      <<"f", "a", "c", "e", "b", "o", "o", "k", ".", "n", "e", "t">>,
      <<"f", "b", "c", "d", "n", ".", "n", "e", "t">>,
      <<"c", "o", "n", "n", "e", "c", "t", ".", "f", "a", "c", "e", "b", "o", "o", "k", ".", "n", "e", "t">>,
      <<"g", "o", "o", "g", "l", "e", "s", "y", "n", "d", "i", "c", "a", "t", "i", "o", "n", ".", "c", "o", "m">>,
      <<"a", "d", "s", "y", "s", "t", "e", "m", ".", "a", "m", "a", "z", "o", "n", ".", "c", "o", "m">>,
      <<"a", "m", "a", "z", "o", "n", "-", "a", "d", "s", "y", "s", "t", "e", "m", ".", "c", "o", "m">>,
      <<"a", "d", "s", "y", "m", "p", "t", "o", "t", "i", "c", ".", "c", "o", "m">>,
      <<"t", "w", "i", "t", "t", "e", "r", ".", "c", "o", "m">>,
      <<"t", ".", "c", "o">>,
      <<"l", "i", "n", "k", "e", "d", "i", "n", ".", "c", "o", "m">>,
      <<"i", "n", "s", "t", "a", "g", "r", "a", "m", ".", "c", "o", "m">>,
      <<"h", "o", "t", "j", "a", "r", ".", "c", "o", "m">>,
      <<"m", "i", "x", "p", "a", "n", "e", "l", ".", "c", "o", "m">>,
      <<"s", "e", "g", "m", "e", "n", "t", ".", "c", "o", "m">>,
      <<"a", "m", "p", "l", "i", "t", "u", "d", "e", ".", "c", "o", "m">>,
      <<"f", "u", "l", "l", "s", "t", "o", "r", "y", ".", "c", "o", "m">>,
      <<"l", "o", "g", "g", "l", "y", ".", "c", "o", "m">>,
      <<"n", "e", "w", "r", "e", "l", "i", "c", ".", "c", "o", "m">>,
      <<"p", "i", "n", "g", "d", "o", "m", ".", "n", "e", "t">>,
      <<"q", "u", "a", "n", "t", "s", "e", "r", "v", "e", ".", "c", "o", "m">>,
      <<"s", "c", "o", "r", "e", "c", "a", "r", "d", "r", "e", "s", "e", "a", "r", "c", "h", ".", "c", "o", "m">>,
      <<"c", "o", "m", "s", "c", "o", "r", "e", ".", "c", "o", "m">>,
      <<"b", "i", "n", "g", ".", "c", "o", "m">>,
      <<"y", "a", "h", "o", "o", ".", "c", "o", "m">>,
      <<"y", "a", "n", "d", "e", "x", ".", "r", "u">>,
      <<"b", "a", "i", "d", "u", ".", "c", "o", "m">>,
      <<"c", "d", "n", "j", "s", ".", "c", "l", "o", "u", "d", "f", "l", "a", "r", "e", ".", "c", "o", "m">>,
      <<"a", "j", "a", "x", ".", "g", "o", "o", "g", "l", "e", "a", "p", "i", "s", ".", "c", "o", "m">>,
      <<"m", "a", "x", "c", "d", "n", ".", "b", "o", "o", "t", "s", "t", "r", "a", "p", "c", "d", "n", ".", "c", "o", "m">> }

\* the alternation of the TLD regular expression of extractDomainKeywords
TLDS ==
    { <<"c", "o", "m">>,
      <<"o", "r", "g">>,
      <<"n", "e", "t">>,
      <<"e", "d", "u">>,
      <<"g", "o", "v">>,
      <<"i", "o">>,
      <<"c", "o">>,
      <<"u", "k">>,
      <<"d", "e">>,
      <<"f", "r">>,
      <<"j", "p">>,
      <<"a", "u">>,
      <<"c", "a">>,
      <<"b", "r">>,
      <<"i", "n">>,
      <<"r", "u">>,
      <<"c", "n">>,
      <<"m", "x">>,
      <<"i", "t">>,
      <<"e", "s">>,
      <<"n", "l">>,
      <<"s", "e">>,
      <<"n", "o">>,
      <<"d", "k">>,
      <<"f", "i">>,
      <<"p", "l">>,
      <<"b", "e">>,
      <<"a", "t">>,
      <<"c", "h">>,
      <<"c", "z">>,
      <<"h", "u">>,
      <<"g", "r">>,
      <<"p", "t">>,
      <<"r", "o">>,
      <<"b", "g">>,
      <<"h", "r">>,
      <<"s", "k">>,
      <<"s", "i">>,
      <<"e", "e">>,
      <<"l", "v">>,
      <<"l", "t">>,
      <<"l", "u">>,
      <<"m", "t">>,
      <<"c", "y">> }

\* the stoplist of extractDomainKeywords
genericWords ==
    { <<"w", "w", "w">>,
      <<"c", "d", "n">>,
      <<"s", "t", "a", "t", "i", "c">>,
      <<"a", "s", "s", "e", "t", "s">>,
      <<"a", "p", "i">>,
      <<"i", "m", "g">>,
      <<"i", "m", "a", "g", "e", "s">>,
      <<"j", "s">>,
      <<"c", "s", "s">>,
      <<"m", "e", "d", "i", "a">>,
      <<"c", "o", "n", "t", "e", "n", "t">>,
      <<"d", "a", "t", "a">>,
      <<"f", "i", "l", "e", "s">>,
      <<"d", "o", "c", "s">>,
      <<"b", "l", "o", "g">>,
      <<"n", "e", "w", "s">>,
      <<"s", "t", "o", "r", "e">>,
      <<"s", "h", "o", "p">>,
      <<"m", "a", "i", "l">>,
      <<"e", "m", "a", "i", "l">>,
      <<"s", "u", "p", "p", "o", "r", "t">>,
      <<"h", "e", "l", "p">>,
      <<"a", "d", "m", "i", "n">>,
      <<"s", "e", "c", "u", "r", "e">> }

(***************************************************************************)
(* Inputs                                                                  *)
(***************************************************************************)

\* number of labels of the generated domains
MaxLabels == 2

\* labels the generated domains are made of
Labels ==
    { <<>>,
      <<"w", "w", "w">>,
      <<"a", "b", "c">>,
      <<"a", "b", "c", "d">>,
      <<"a", "b", "c", "d", "e", "f">>,
      <<"c", "o", "m">> }

\* domains of the tests and examples, in the spellings the callers may pass
SampleDomains ==
    { <<"w", "w", "w", ".">>,
      <<"e", "x", "a", "m", "p", "l", "e", ".", "c", "o", "m">>,
      <<"w", "w", "w", ".", "e", "x", "a", "m", "p", "l", "e", ".", "c", "o", "m">>,
      <<"w", "w", "w", ".", "w", "w", "w", ".", "e", "x", "a", "m", "p", "l", "e", ".", "c", "o", "m">>,
      <<"E", "X", "A", "M", "P", "L", "E", ".", "C", "O", "M">>,
      <<"E", "x", "a", "m", "p", "l", "e", ".", "C", "o", "m">>,
      <<"s", "u", "b", ".", "e", "x", "a", "m", "p", "l", "e", ".", "c", "o", "m">>,
      <<"n", "o", "t", "e", "x", "a", "m", "p", "l", "e", ".", "c", "o", "m">>,
      <<"e", "x", "a", "m", "p", "l", "e", ".", "c", "o", "m", ".">>,
      <<"m", "a", "i", "l", ".", "g", "o", "o", "g", "l", "e", ".", "c", "o", "m">>,
      <<"d", "r", "i", "v", "e", ".", "g", "o", "o", "g", "l", "e", ".", "c", "o", "m">>,
      <<"f", "o", "o", ".", "c", "o", ".", "u", "k">>,
      <<"b", "a", "r", ".", "c", "o", ".", "u", "k">>,
      <<"g", "i", "t", "h", "u", "b", "a", "s", "s", "e", "t", "s", ".", "c", "o", "m">>,
      <<"g", "i", "t", "h", "u", "b", ".", "c", "o", "m">>,
      <<"G", "i", "t", "H", "u", "b", ".", "i", "o">>,
      <<"m", "y", "-", "g", "i", "t", "h", "u", "b", ".", "i", "o">>,
      <<"d", "o", "u", "b", "l", "e", "c", "l", "i", "c", "k", ".", "n", "e", "t">>,
      <<"a", "p", "i", ".", "c", "o", "m">>,
      <<"a", "p", "i", "g", "a", "t", "e", "w", "a", "y", ".", "i", "o">>,
      <<"a", "b", "c", "-", "c", "d", "n", ".", "n", "e", "t">>,
      <<"a", "b", "c", "_", "s", "t", "a", "t", "i", "c", ".", "o", "r", "g">>,
      <<"g", "o", "o", "g", "l", "e", "-", "a", "n", "a", "l", "y", "t", "i", "c", "s", ".", "c", "o", "m">>,
      <<"G", "O", "O", "G", "L", "E", "-", "A", "N", "A", "L", "Y", "T", "I", "C", "S", ".", "C", "O", "M">>,
      <<"G", "o", "o", "g", "l", "e", "-", "A", "n", "a", "l", "y", "t", "i", "c", "s", ".", "c", "o", "m">>,
      <<"s", "u", "b", ".", "g", "o", "o", "g", "l", "e", "-", "a", "n", "a", "l", "y", "t", "i", "c", "s", ".", "c", "o", "m">>,
      <<"w", "w", "w", ".", "g", "o", "o", "g", "l", "e", "-", "a", "n", "a", "l", "y", "t", "i", "c", "s", ".", "c", "o", "m">>,
      <<"s", "u", "b", ".", "d", "o", "u", "b", "l", "e", "c", "l", "i", "c", "k", ".", "n", "e", "t">>,
      <<"t", ".", "c", "o">>,
      <<"w", "w", "w", ".", "w", "w", "w", ".", "a", "b", "c">>,
      <<"a", "b", "c", ".", "i", "o">>,
      <<"-", "_", ".", "-">>,
      <<"a", ".", "i", "t", ".", "b", "r", "a", "n", "d", "n", "a", "m", "e", ".", "c", "o", "m">>,
      <<"b", "r", "a", "n", "d", "n", "a", "m", "e", ".", "i", "o">> }

RECURSIVE JoinLabels(_)
\* the labels of ls joined with "."
JoinLabels(ls) ==
    IF Len(ls) = 0 THEN <<>>
    ELSE IF Len(ls) = 1 THEN ls[1]
    ELSE ls[1] \o <<".">> \o JoinLabels(Tail(ls))

GeneratedDomains ==
    { JoinLabels(ls) : ls \in UNION { [1..k -> Labels] : k \in 0..MaxLabels } }

Domains == SampleDomains \cup GeneratedDomains

(***************************************************************************)
(* JavaScript string primitives                                            *)
(***************************************************************************)

UpperCase ==
    <<"A", "B", "C", "D", "E", "F", "G", "H", "I", "J", "K", "L", "M",
      "N", "O", "P", "Q", "R", "S", "T", "U", "V", "W", "X", "Y", "Z">>

LowerCase ==
    <<"a", "b", "c", "d", "e", "f", "g", "h", "i", "j", "k", "l", "m",
      "n", "o", "p", "q", "r", "s", "t", "u", "v", "w", "x", "y", "z">>

\* String.prototype.toLowerCase on the characters of a host name
toLowerCase(s) ==
    [i \in 1..Len(s) |->
        IF \E k \in 1..26 : UpperCase[k] = s[i]
        THEN LowerCase[CHOOSE k \in 1..26 : UpperCase[k] = s[i]]
        ELSE s[i]]

\* String.prototype.startsWith / the anchor ^ of a regular expression
StartsWith(s, prefix) ==
    /\ Len(prefix) <= Len(s)
    /\ SubSeq(s, 1, Len(prefix)) = prefix

\* String.prototype.endsWith
EndsWith(s, suffix) ==
    /\ Len(suffix) <= Len(s)
    /\ SubSeq(s, Len(s) - Len(suffix) + 1, Len(s)) = suffix

\* String.prototype.includes
Includes(s, sub) ==
    \E k \in 0..(Len(s) - Len(sub)) : SubSeq(s, k + 1, k + Len(sub)) = sub

RECURSIVE SplitFrom(_, _, _, _)
\* the parts of s from position i on, cur being the part read so far
SplitFrom(s, seps, i, cur) ==
    IF i > Len(s) THEN <<cur>>
    ELSE IF s[i] \in seps THEN <<cur>> \o SplitFrom(s, seps, i + 1, <<>>)
    ELSE SplitFrom(s, seps, i + 1, Append(cur, s[i]))

\* String.prototype.split on a set of one-character separators:
\* "" splits into the one part "", and empty parts are kept
Split(s, seps) == SplitFrom(s, seps, 1, <<>>)

RECURSIVE Join(_, _)
\* Array.prototype.join
Join(parts, sep) ==
    IF Len(parts) = 0 THEN <<>>
    ELSE IF Len(parts) = 1 THEN parts[1]
    ELSE parts[1] \o sep \o Join(Tail(parts), sep)

\* domain.replace(/^www\./, "")
StripWww(domain) ==
    IF StartsWith(domain, <<"w", "w", "w", ".">>)
    THEN SubSeq(domain, 5, Len(domain))
    ELSE domain

\* /\.(com|org|...)(\.|$).*/ matches at position i of s: a dot, a listed
\* TLD, and then a dot or the end of the string
TldMatchAt(s, i) ==
    /\ s[i] = "."
    /\ \E tld \in TLDS :
          /\ i + Len(tld) <= Len(s)
          /\ SubSeq(s, i + 1, i + Len(tld)) = tld
          /\ \/ i + Len(tld) = Len(s)
             \/ s[i + Len(tld) + 1] = "."

\* s.replace(/\.(com|org|...)(\.|$).*/, ""): the leftmost match and all that
\* follows it is removed
StripTld(s) ==
    IF \E i \in 1..Len(s) : TldMatchAt(s, i)
    THEN LET first == CHOOSE i \in 1..Len(s) :
                         /\ TldMatchAt(s, i)
                         /\ \A j \in 1..(i - 1) : ~TldMatchAt(s, j)
         IN  SubSeq(s, 1, first - 1)
    ELSE s

(***************************************************************************)
(* The keyword heuristic                                                   *)
(***************************************************************************)

\* Set.prototype.add replaced by Array.prototype.push
SetAdd_Push(set, x) == Append(set, x)

\* Set.prototype.add on a Set held in insertion order
SetAdd(set, x) ==
    IF \E i \in 1..Len(set) : set[i] = x THEN set ELSE Append(set, x)

\* the expansion step keeping only the longest of related keywords: the
\* keywords that the part contains are removed
ExpandKeywords_DropsStems(keywords, part, j) ==
    LET Keep(existingKeyword) ==
            ~(Len(existingKeyword) >= 4 /\ existingKeyword # part
              /\ Includes(part, existingKeyword))
    IN  SelectSeq(keywords, Keep)

RECURSIVE ExpandKeywords(_, _, _)
\* the loop "for (const existingKeyword of keywords)" from position j on;
\* the Set is iterated while it is added to
ExpandKeywords(keywords, part, j) ==
    IF j > Len(keywords) THEN keywords
    ELSE LET existingKeyword == keywords[j]
             related == /\ Len(existingKeyword) >= 4
                        /\ \/ Includes(part, existingKeyword)
                           \/ Includes(existingKeyword, part)
             added == IF related
                      THEN SetAdd(SetAdd(keywords, existingKeyword), part)
                      ELSE keywords
         IN  ExpandKeywords(added, part, j + 1)

RECURSIVE CollectKeywords_NoStoplist(_, _, _)
\* the loop over the parts without the test against genericWords
CollectKeywords_NoStoplist(parts, i, keywords) ==
    IF i > Len(parts) THEN keywords
    ELSE LET part == parts[i]
             kept == Len(part) >= 3
             added == IF kept THEN SetAdd(keywords, part) ELSE keywords
             expanded == IF kept /\ Len(part) >= 6
                         THEN ExpandKeywords(added, part, 1)
                         ELSE added
         IN  CollectKeywords_NoStoplist(parts, i + 1, expanded)

RECURSIVE CollectKeywords(_, _, _)
\* the loop "for (const part of parts)" from position i on
CollectKeywords(parts, i, keywords) ==
    IF i > Len(parts) THEN keywords
    ELSE LET part == parts[i]
             kept == Len(part) >= 3 /\ part \notin genericWords
             added == IF kept THEN SetAdd(keywords, part) ELSE keywords
             expanded == IF kept /\ Len(part) >= 6
                         THEN ExpandKeywords(added, part, 1)
                         ELSE added
         IN  CollectKeywords(parts, i + 1, expanded)

\* extractDomainKeywords: the keyword Set, in insertion order
extractDomainKeywords(domain) ==
    LET cleanDomain == StripTld(StripWww(domain))
        parts == Split(cleanDomain, {".", "-", "_"})
    IN  CollectKeywords(parts, 1, <<>>)

\* getBaseDomain keeping three labels, parts.slice(-3), instead of two
getBaseDomain_LastThree(domain) ==
    LET parts == Split(domain, {"."})
    IN  IF Len(parts) >= 3
        THEN Join(SubSeq(parts, Len(parts) - 2, Len(parts)), <<".">>)
        ELSE domain

\* getBaseDomain, the function nested in isThirdPartyDomain
getBaseDomain(domain) ==
    LET parts == Split(domain, {"."})
    IN  IF Len(parts) >= 2
        THEN Join(SubSeq(parts, Len(parts) - 1, Len(parts)), <<".">>)
        ELSE domain

\* the nested loops accepting a pair of equal keywords only
KeywordsOverlap_ExactOnly(pageKeywords, requestKeywords) ==
    \E i \in 1..Len(pageKeywords) : \E j \in 1..Len(requestKeywords) :
        /\ Len(pageKeywords[i]) >= 4
        /\ Len(requestKeywords[j]) >= 4
        /\ pageKeywords[i] = requestKeywords[j]

\* the nested loops with the candidate threshold 3 in place of 4
KeywordsOverlap_MinLength3(pageKeywords, requestKeywords) ==
    \E i \in 1..Len(pageKeywords) : \E j \in 1..Len(requestKeywords) :
        /\ Len(pageKeywords[i]) >= 3
        /\ Len(requestKeywords[j]) >= 3
        /\ \/ pageKeywords[i] = requestKeywords[j]
           \/ Includes(pageKeywords[i], requestKeywords[j])
           \/ Includes(requestKeywords[j], pageKeywords[i])

\* the nested loops over pageKeywords and requestKeywords find a pair
KeywordsOverlap(pageKeywords, requestKeywords) ==
    \E i \in 1..Len(pageKeywords) : \E j \in 1..Len(requestKeywords) :
        LET pageKeyword == pageKeywords[i]
            requestKeyword == requestKeywords[j]
        IN  /\ Len(pageKeyword) >= 4
            /\ Len(requestKeyword) >= 4
            /\ \/ pageKeyword = requestKeyword
               \/ Includes(pageKeyword, requestKeyword)
               \/ Includes(requestKeyword, pageKeyword)

\* isThirdPartyDomain without the check that the page is a subdomain of the
\* request domain
isThirdPartyDomain_OneWaySubdomain(reqDomain, pgDomain) ==
    LET cleanRequestDomain == StripWww(reqDomain)
        cleanPageDomain == StripWww(pgDomain)
    IN  IF cleanRequestDomain = cleanPageDomain THEN FALSE
        ELSE IF EndsWith(cleanRequestDomain, <<".">> \o cleanPageDomain) THEN FALSE
        ELSE IF getBaseDomain(cleanRequestDomain) = getBaseDomain(cleanPageDomain)
             THEN FALSE
        ELSE IF KeywordsOverlap(extractDomainKeywords(cleanPageDomain),
                                extractDomainKeywords(cleanRequestDomain))
             THEN FALSE
        ELSE TRUE

\* isThirdPartyDomain testing the suffixes without the leading "."
isThirdPartyDomain_SuffixNoDot(reqDomain, pgDomain) ==
    LET cleanRequestDomain == StripWww(reqDomain)
        cleanPageDomain == StripWww(pgDomain)
    IN  IF cleanRequestDomain = cleanPageDomain THEN FALSE
        ELSE IF EndsWith(cleanRequestDomain, cleanPageDomain) THEN FALSE
        ELSE IF EndsWith(cleanPageDomain, cleanRequestDomain) THEN FALSE
        ELSE IF getBaseDomain(cleanRequestDomain) = getBaseDomain(cleanPageDomain)
             THEN FALSE
        ELSE IF KeywordsOverlap(extractDomainKeywords(cleanPageDomain),
                                extractDomainKeywords(cleanRequestDomain))
             THEN FALSE
        ELSE TRUE

\* isThirdPartyDomain of the keyword-heuristic module
isThirdPartyDomain(reqDomain, pgDomain) ==
    LET cleanRequestDomain == StripWww(reqDomain)
        cleanPageDomain == StripWww(pgDomain)
    IN  IF cleanRequestDomain = cleanPageDomain THEN FALSE
        ELSE IF EndsWith(cleanRequestDomain, <<".">> \o cleanPageDomain) THEN FALSE
        ELSE IF EndsWith(cleanPageDomain, <<".">> \o cleanRequestDomain) THEN FALSE
        ELSE IF getBaseDomain(cleanRequestDomain) = getBaseDomain(cleanPageDomain)
             THEN FALSE
        ELSE IF KeywordsOverlap(extractDomainKeywords(cleanPageDomain),
                                extractDomainKeywords(cleanRequestDomain))
             THEN FALSE
        ELSE TRUE

\* the client's isThirdPartyDomain testing the suffix "." + page domain only
isThirdPartyDomainClient_NoEquality(reqDomain, pgDomain) ==
    LET cleanRequestDomain == StripWww(reqDomain)
        cleanPageDomain == StripWww(pgDomain)
    IN  ~EndsWith(cleanRequestDomain, <<".">> \o cleanPageDomain)

\* isThirdPartyDomain of client/src/utils/trackerDetection.ts
isThirdPartyDomainClient(reqDomain, pgDomain) ==
    LET cleanRequestDomain == StripWww(reqDomain)
        cleanPageDomain == StripWww(pgDomain)
    IN  /\ ~EndsWith(cleanRequestDomain, cleanPageDomain)
        /\ cleanRequestDomain # cleanPageDomain

\* isKnownTracker without toLowerCase
isKnownTracker_NoLowerCase(trackers, domain) == domain \in trackers

\* isKnownTracker, reading the tracker Set trackers
isKnownTracker(trackers, domain) == toLowerCase(domain) \in trackers

(***************************************************************************)
(* The classifier called on a pair of domains                              *)
(***************************************************************************)

\* the state outside a call on a pair of domains, at rest
LoopIdle ==
    /\ pc = "idle"
    /\ phase = "none"
    /\ loopParts = <<>>
    /\ partIdx = 0
    /\ kwIter = 0
    /\ loopKeywords = <<>>
    /\ loopPageKeywords = <<>>

\* the background worker before any event: an empty Map
WorkerIdle ==
    /\ tabNetworkRequests = <<>>
    /\ recorded = <<>>
    /\ skipped = 0

\* no message delivered yet
NoMessage ==
    [handler |-> "none", type |-> "none", senderId |-> "none", tabId |-> 0, url |-> <<>>,
     responses |-> <<>>, pending |-> FALSE, returned |-> "undefined"]

\* the handlers and the content script before any event
ExtensionIdle ==
    /\ cleared = <<>>
    /\ dropped = {}
    /\ msg = NoMessage
    /\ networkRequests = <<>>
    /\ analyticsFlags = <<>>

TokenIdle == token = <<>> /\ currentTime = 0

\* the popup before authenticateAndAnalyze is called
PopupIdle ==
    /\ storedToken = <<>>
    /\ popup = [pc |-> "idle", token |-> <<>>, authResponse |-> <<>>, results |-> FALSE,
                loading |-> FALSE, analysisError |-> "null", analysisResult |-> "null"]
    /\ backendCalls = <<>>

\* no call of makeRequestWithRetry
RetryIdle ==
    retry = [pc |-> "idle", maxRetries |-> 0, retries |-> 0, attempts |-> 0,
             last |-> [kind |-> "none", status |-> 0, statusText |-> <<>>, body |-> <<>>],
             outcome |-> [kind |-> "none", status |-> 0, statusText |-> <<>>, body |-> <<>>]]

ApiIdle == TokenIdle /\ PopupIdle /\ RetryIdle

ClientIdle == ExtensionIdle /\ ApiIdle

RestIdle == calls = <<>> /\ tasks = <<>> /\ WorkerIdle /\ ClientIdle

AuxIdle == url = <<>> /\ LoopIdle /\ RestIdle

Init ==
    /\ requestDomain \in Domains
    /\ pageDomain \in Domains
    /\ knownTrackers = KNOWN_TRACKERS
    /\ op = "none"
    /\ result = FALSE
    /\ AuxIdle

\* a call of isThirdPartyDomain(requestDomain, pageDomain), keyword heuristic
CallIsThirdPartyDomain ==
    /\ op = "none"
    /\ op' = "isThirdPartyDomain"
    /\ result' = isThirdPartyDomain(requestDomain, pageDomain)
    /\ UNCHANGED <<requestDomain, pageDomain, knownTrackers>>
    /\ UNCHANGED auxVars

\* a call of the client's isThirdPartyDomain(requestDomain, pageDomain)
CallIsThirdPartyDomainClient ==
    /\ op = "none"
    /\ op' = "isThirdPartyDomainClient"
    /\ result' = isThirdPartyDomainClient(requestDomain, pageDomain)
    /\ UNCHANGED <<requestDomain, pageDomain, knownTrackers>>
    /\ UNCHANGED auxVars

\* a call of isKnownTracker(requestDomain)
CallIsKnownTracker ==
    /\ op = "none"
    /\ op' = "isKnownTracker"
    /\ result' = isKnownTracker(knownTrackers, requestDomain)
    /\ UNCHANGED <<requestDomain, pageDomain, knownTrackers>>
    /\ UNCHANGED auxVars

\* a call of extractDomainKeywords(requestDomain)
CallExtractDomainKeywords ==
    /\ op = "none"
    /\ op' = "extractDomainKeywords"
    /\ result' = extractDomainKeywords(requestDomain)
    /\ UNCHANGED <<requestDomain, pageDomain, knownTrackers>>
    /\ UNCHANGED auxVars

Next ==
    \/ CallIsThirdPartyDomain
    \/ CallIsThirdPartyDomainClient
    \/ CallIsKnownTracker
    \/ CallExtractDomainKeywords

Spec == Init /\ [][Next]_vars

(***************************************************************************)
(* getDomainFromUrl called on a URL string                                 *)
(***************************************************************************)

\* scheme spellings, separators, hosts and tails the input URLs are made of
UrlSchemes == { <<>>, <<"h", "t", "t", "p">>, <<"H", "T", "T", "P", "S">>, <<"f", "o", "o">> }

UrlSeparators == { <<>>, <<":">>, <<":", "/", "/">> }

UrlHosts ==
    { <<>>,
      <<"E", "x", "a", "m", "p", "l", "e", ".", "C", "O", "M">>,
      <<"e", "x", "a", "m", "p", "l", "e", ".", "c", "o", "m">>,
      <<"w", "w", "w", ".", "a", "b", "c">>,
      <<"a", " ", "b", ".", "c", "o", "m">> }

UrlTails == { <<>>, <<"/", "p", "a", "t", "h">>, <<":", "8", "0", "/", "x">>, <<":", "8", "x">> }

\* URL strings of the tests and of the callers
SampleUrls ==
    { <<"n", "o", "t", " ", "a", " ", "u", "r", "l">>,
      <<"H", "T", "T", "P", "S", ":", "/", "/", "E", "x", "a", "m", "p", "l", "e", ".", "C", "O", "M", "/", "p", "a", "t", "h">>,
      <<"/", "a", "p", "i", "/", "d", "a", "t", "a">>,
      <<"h", "t", "t", "p", "s", ":", "/", "/", "w", "w", "w", ".", "g", "o", "o", "g", "l", "e", "-", "a", "n", "a", "l", "y", "t", "i", "c", "s", ".", "c", "o", "m", "/", "c", "o", "l", "l", "e", "c", "t">> }

Urls ==
    SampleUrls \cup
    { sch \o sep \o host \o tail :
        sch \in UrlSchemes, sep \in UrlSeparators, host \in UrlHosts, tail \in UrlTails }

Digits == {"0", "1", "2", "3", "4", "5", "6", "7", "8", "9"}

Letters == { UpperCase[k] : k \in 1..26 } \cup { LowerCase[k] : k \in 1..26 }

\* the schemes the URL parser treats as special: their host is mandatory and
\* is lower-cased by the parser
SpecialSchemes ==
    { <<"h", "t", "t", "p">>, <<"h", "t", "t", "p", "s">>, <<"w", "s">>, <<"w", "s", "s">>, <<"f", "t", "p">> }

\* the outcome of a function that throws
Thrown == <<"TypeError: Invalid URL">>

\* the first position of s from i on that holds a character of cs,
\* Len(s) + 1 when there is none
FirstOf(s, cs, i) ==
    IF \E k \in i..Len(s) : s[k] \in cs
    THEN CHOOSE k \in i..Len(s) :
            /\ s[k] \in cs
            /\ \A j \in i..(k - 1) : s[j] \notin cs
    ELSE Len(s) + 1

\* new URL(url) without a base: [ok |-> FALSE] when the constructor throws,
\* else the hostname of the parsed URL
ParseUrl(u) ==
    LET colon == FirstOf(u, {":"}, 1)
        scheme == SubSeq(u, 1, colon - 1)
        schemeOk == /\ colon <= Len(u)
                    /\ Len(scheme) >= 1
                    /\ scheme[1] \in Letters
                    /\ \A i \in 1..Len(scheme) :
                          scheme[i] \in Letters \cup Digits \cup {"+", "-", "."}
        special == toLowerCase(scheme) \in SpecialSchemes
        rest == SubSeq(u, colon + 1, Len(u))
        \* a special scheme skips any number of slashes before the authority
        slashes == CHOOSE n \in 0..Len(rest) :
                      /\ \A i \in 1..n : rest[i] = "/"
                      /\ (n = Len(rest) \/ rest[n + 1] # "/")
        hasAuthority == special \/ (Len(rest) >= 2 /\ rest[1] = "/" /\ rest[2] = "/")
        start == IF special THEN slashes + 1 ELSE 3
        stop == FirstOf(rest, {"/", "?", "#"}, start)
        authority == SubSeq(rest, start, stop - 1)
        portAt == FirstOf(authority, {":"}, 1)
        host == SubSeq(authority, 1, portAt - 1)
        port == SubSeq(authority, portAt + 1, Len(authority))
        portOk == \A i \in 1..Len(port) : port[i] \in Digits
        hostOk == /\ \A i \in 1..Len(host) : host[i] # " "
                  /\ (special => Len(host) >= 1)
    IN  IF ~schemeOk THEN [ok |-> FALSE, hostname |-> <<>>]
        ELSE IF ~hasAuthority THEN [ok |-> TRUE, hostname |-> <<>>]
        ELSE IF ~(hostOk /\ portOk) THEN [ok |-> FALSE, hostname |-> <<>>]
        ELSE [ok |-> TRUE,
              hostname |-> IF special THEN toLowerCase(host) ELSE host]

\* getDomainFromUrl without toLowerCase
getDomainFromUrl_NoLowerCase(u) ==
    IF ParseUrl(u).ok THEN ParseUrl(u).hostname ELSE <<>>

\* getDomainFromUrl without the try/catch
getDomainFromUrl_NoCatch(u) ==
    IF ParseUrl(u).ok THEN toLowerCase(ParseUrl(u).hostname) ELSE Thrown

\* getDomainFromUrl: try { new URL(url).hostname.toLowerCase() } catch { "" }
getDomainFromUrl(u) ==
    IF ParseUrl(u).ok THEN toLowerCase(ParseUrl(u).hostname) ELSE <<>>

InitUrl ==
    /\ url \in Urls
    /\ requestDomain = <<>>
    /\ pageDomain = <<>>
    /\ knownTrackers = KNOWN_TRACKERS
    /\ op = "none"
    /\ result = FALSE
    /\ LoopIdle
    /\ RestIdle

\* a call of getDomainFromUrl(url)
CallGetDomainFromUrl ==
    /\ op = "none"
    /\ op' = "getDomainFromUrl"
    /\ result' = getDomainFromUrl(url)
    /\ UNCHANGED <<requestDomain, pageDomain, knownTrackers>>
    /\ UNCHANGED auxVars

NextUrl == CallGetDomainFromUrl

SpecUrl == InitUrl /\ [][NextUrl]_vars

(***************************************************************************)
(* isThirdPartyDomain and isKnownTracker followed statement by statement   *)
(***************************************************************************)

\* size of a keyword Set beyond which the loops are not followed further
MaxKeywords == 8

\* page domains of the calls that are followed statement by statement
SteppedPageDomains ==
    { <<>>,
      <<"g", "i", "t", "h", "u", "b", ".", "c", "o", "m">>,
      <<"a", "b", "c", "d", "e", "f", ".", "a", "b", "c", "d">>,
      <<"m", "y", "-", "g", "i", "t", "h", "u", "b", ".", "i", "o">>,
      <<"-", "_", ".", "-">>,
      <<"w", "w", "w", ".", "a", "b", "c">> }

InitStepped ==
    /\ requestDomain \in Domains
    /\ pageDomain \in SteppedPageDomains
    /\ knownTrackers = KNOWN_TRACKERS
    /\ op = "none"
    /\ result = FALSE
    /\ url = <<>>
    /\ LoopIdle
    /\ RestIdle

\* the parts of a domain that extractDomainKeywords loops over
KeywordParts(domain) == Split(StripTld(StripWww(domain)), {".", "-", "_"})

\* isThirdPartyDomain is entered: the early returns of the equality, the
\* subdomain and the base-domain check, else extractDomainKeywords is entered
\* for the page domain
EnterIsThirdPartyDomain ==
    /\ pc = "idle"
    /\ op' = "isThirdPartyDomain"
    /\ LET cleanRequestDomain == StripWww(requestDomain)
           cleanPageDomain == StripWww(pageDomain)
       IN  IF \/ cleanRequestDomain = cleanPageDomain
              \/ EndsWith(cleanRequestDomain, <<".">> \o cleanPageDomain)
              \/ EndsWith(cleanPageDomain, <<".">> \o cleanRequestDomain)
              \/ getBaseDomain(cleanRequestDomain) = getBaseDomain(cleanPageDomain)
           THEN /\ pc' = "done"
                /\ result' = FALSE
                /\ UNCHANGED <<phase, loopParts, partIdx>>
           ELSE /\ pc' = "forPart"
                /\ phase' = "page"
                /\ loopParts' = KeywordParts(cleanPageDomain)
                /\ partIdx' = 1
                /\ UNCHANGED result
    /\ UNCHANGED <<requestDomain, pageDomain, knownTrackers, url, restVars>>
    /\ UNCHANGED <<kwIter, loopKeywords, loopPageKeywords>>

\* one turn of "for (const part of parts)", up to the inner loop; at the end
\* of the parts extractDomainKeywords returns
StepForPart ==
    /\ pc = "forPart"
    /\ IF partIdx > Len(loopParts)
       THEN IF phase = "page"
            THEN /\ loopPageKeywords' = loopKeywords
                 /\ phase' = "request"
                 /\ loopParts' = KeywordParts(StripWww(requestDomain))
                 /\ partIdx' = 1
                 /\ loopKeywords' = <<>>
                 /\ UNCHANGED <<pc, kwIter>>
            ELSE /\ pc' = "compare"
                 /\ UNCHANGED <<phase, loopParts, partIdx, kwIter, loopKeywords, loopPageKeywords>>
       ELSE LET part == loopParts[partIdx]
                kept == Len(part) >= 3 /\ part \notin genericWords
            IN  /\ loopKeywords' = IF kept THEN SetAdd(loopKeywords, part) ELSE loopKeywords
                /\ IF kept /\ Len(part) >= 6
                   THEN /\ pc' = "forExisting"
                        /\ kwIter' = 1
                        /\ UNCHANGED partIdx
                   ELSE /\ partIdx' = partIdx + 1
                        /\ UNCHANGED <<pc, kwIter>>
                /\ UNCHANGED <<phase, loopParts, loopPageKeywords>>
    /\ UNCHANGED <<classifierVars, url, restVars>>

\* one turn of "for (const existingKeyword of keywords)": the Set iterator
\* visits the keywords in insertion order, those added meanwhile included
StepForExisting ==
    /\ pc = "forExisting"
    /\ Len(loopKeywords) <= MaxKeywords
    /\ IF kwIter > Len(loopKeywords)
       THEN /\ pc' = "forPart"
            /\ partIdx' = partIdx + 1
            /\ UNCHANGED <<kwIter, loopKeywords>>
       ELSE LET part == loopParts[partIdx]
                existingKeyword == loopKeywords[kwIter]
                related == /\ Len(existingKeyword) >= 4
                           /\ \/ Includes(part, existingKeyword)
                              \/ Includes(existingKeyword, part)
            IN  /\ loopKeywords' = IF related
                               THEN SetAdd(SetAdd(loopKeywords, existingKeyword), part)
                               ELSE loopKeywords
                /\ kwIter' = kwIter + 1
                /\ UNCHANGED <<pc, partIdx>>
    /\ UNCHANGED <<phase, loopParts, loopPageKeywords>>
    /\ UNCHANGED <<classifierVars, url, restVars>>

\* the nested loops over pageKeywords and requestKeywords, and the return
StepCompare ==
    /\ pc = "compare"
    /\ pc' = "done"
    /\ result' = ~KeywordsOverlap(loopPageKeywords, loopKeywords)
    /\ UNCHANGED <<requestDomain, pageDomain, knownTrackers, op, url, restVars>>
    /\ UNCHANGED <<phase, loopParts, partIdx, kwIter, loopKeywords, loopPageKeywords>>

\* isKnownTracker(requestDomain), a single statement
StepIsKnownTracker ==
    /\ pc = "idle"
    /\ pc' = "done"
    /\ op' = "isKnownTracker"
    /\ result' = isKnownTracker(knownTrackers, requestDomain)
    /\ UNCHANGED <<requestDomain, pageDomain, knownTrackers, url, restVars>>
    /\ UNCHANGED <<phase, loopParts, partIdx, kwIter, loopKeywords, loopPageKeywords>>

NextStepped ==
    \/ EnterIsThirdPartyDomain
    \/ StepForPart
    \/ StepForExisting
    \/ StepCompare
    \/ StepIsKnownTracker

\* a call that has started runs on: JavaScript runs a function to completion
SpecStepped == InitStepped /\ [][NextStepped]_vars /\ WF_vars(NextStepped)

(***************************************************************************)
(* Sequences of calls of the exported functions                            *)
(***************************************************************************)

\* number of calls of a sequence
MaxCalls == 3

\* domains and URLs the calls of a sequence are made on
SeqDomains ==
    { <<"e", "x", "a", "m", "p", "l", "e", ".", "c", "o", "m">>,
      <<"E", "X", "A", "M", "P", "L", "E", ".", "C", "O", "M">>,
      <<"g", "o", "o", "g", "l", "e", "-", "a", "n", "a", "l", "y", "t", "i", "c", "s", ".", "c", "o", "m">> }

SeqUrls ==
    { <<"n", "o", "t", " ", "a", " ", "u", "r", "l">>,
      <<"H", "T", "T", "P", "S", ":", "/", "/", "E", "x", "a", "m", "p", "l", "e", ".", "C", "O", "M", "/", "p", "a", "t", "h">> }

InitSeq ==
    /\ requestDomain = <<>>
    /\ pageDomain = <<>>
    /\ knownTrackers = KNOWN_TRACKERS
    /\ op = "none"
    /\ result = FALSE
    /\ url = <<>>
    /\ LoopIdle
    /\ calls = <<>>
    /\ tasks = <<>>
    /\ WorkerIdle
    /\ ClientIdle

\* the call fn(a, b) returned res
Returned(fn, a, b, res) ==
    /\ Len(calls) < MaxCalls
    /\ calls' = Append(calls, [fn |-> fn, a |-> a, b |-> b, res |-> res])
    /\ op' = fn
    /\ result' = res

SeqGetDomainFromUrl(u) ==
    /\ Returned("getDomainFromUrl", u, <<>>, getDomainFromUrl(u))
    /\ url' = u
    /\ UNCHANGED <<requestDomain, pageDomain, knownTrackers, loopVars, taskVars, workerVars, clientVars>>

SeqIsThirdPartyDomain(r, p) ==
    /\ Returned("isThirdPartyDomain", r, p, isThirdPartyDomain(r, p))
    /\ requestDomain' = r
    /\ pageDomain' = p
    /\ UNCHANGED <<knownTrackers, url, loopVars, taskVars, workerVars, clientVars>>

SeqExtractDomainKeywords(d) ==
    /\ Returned("extractDomainKeywords", d, <<>>, extractDomainKeywords(d))
    /\ requestDomain' = d
    /\ UNCHANGED <<pageDomain, knownTrackers, url, loopVars, taskVars, workerVars, clientVars>>

\* isKnownTracker remembering the domains it was asked about in the Set
SeqIsKnownTracker_Caches(d) ==
    /\ Returned("isKnownTracker", d, <<>>, isKnownTracker(knownTrackers, d))
    /\ requestDomain' = d
    /\ knownTrackers' = knownTrackers \cup {toLowerCase(d)}
    /\ UNCHANGED <<pageDomain, url, loopVars, taskVars, workerVars, clientVars>>

SeqIsKnownTracker(d) ==
    /\ Returned("isKnownTracker", d, <<>>, isKnownTracker(knownTrackers, d))
    /\ requestDomain' = d
    /\ UNCHANGED <<pageDomain, knownTrackers, url, loopVars, taskVars, workerVars, clientVars>>

NextSeq ==
    \/ \E u \in SeqUrls : SeqGetDomainFromUrl(u)
    \/ \E r \in SeqDomains, p \in SeqDomains : SeqIsThirdPartyDomain(r, p)
    \/ \E d \in SeqDomains : SeqExtractDomainKeywords(d)
    \/ \E d \in SeqDomains : SeqIsKnownTracker(d)

SpecSeq == InitSeq /\ [][NextSeq]_vars

(***************************************************************************)
(* The observed domains of a page evaluated concurrently                   *)
(***************************************************************************)

\* number of observed domains evaluated at a time
MaxTasks == 2

\* observed domains and page domains of the concurrent evaluation
TaskDomains ==
    { <<"e", "x", "a", "m", "p", "l", "e", ".", "c", "o", "m">>,
      <<"E", "X", "A", "M", "P", "L", "E", ".", "C", "O", "M">>,
      <<"g", "o", "o", "g", "l", "e", "-", "a", "n", "a", "l", "y", "t", "i", "c", "s", ".", "c", "o", "m">>,
      <<"g", "i", "t", "h", "u", "b", "a", "s", "s", "e", "t", "s", ".", "c", "o", "m">> }

TaskPageDomains ==
    { <<"e", "x", "a", "m", "p", "l", "e", ".", "c", "o", "m">>,
      <<"g", "i", "t", "h", "u", "b", ".", "c", "o", "m">> }

\* one task per observed domain, the domains being distinct
InitTasks ==
    /\ pageDomain \in TaskPageDomains
    /\ \E ds \in [1..MaxTasks -> TaskDomains] :
          /\ \A i \in 1..MaxTasks : \A j \in 1..MaxTasks : ds[i] = ds[j] => i = j
          /\ tasks = [i \in 1..MaxTasks |->
                        [domain |-> ds[i], pc |-> "pending",
                         isThirdParty |-> FALSE, isKnownTracker |-> FALSE]]
    /\ requestDomain = <<>>
    /\ knownTrackers = KNOWN_TRACKERS
    /\ op = "none"
    /\ result = FALSE
    /\ url = <<>>
    /\ LoopIdle
    /\ calls = <<>>
    /\ WorkerIdle
    /\ ClientIdle

\* task i calls isThirdPartyDomain(domain, pageDomain)
TaskIsThirdPartyDomain(i) ==
    /\ tasks[i].pc = "pending"
    /\ tasks' = [tasks EXCEPT
                   ![i].isThirdParty = isThirdPartyDomain(tasks[i].domain, pageDomain),
                   ![i].pc = "classified"]
    /\ UNCHANGED <<classifierVars, url, loopVars, seqVars, workerVars, clientVars>>

\* task i calls an isKnownTracker that remembers the domains it was asked
\* about in the Set
TaskIsKnownTracker_Caches(i) ==
    /\ tasks[i].pc = "classified"
    /\ tasks' = [tasks EXCEPT
                   ![i].isKnownTracker = isKnownTracker(knownTrackers, tasks[i].domain),
                   ![i].pc = "done"]
    /\ knownTrackers' = knownTrackers \cup {toLowerCase(tasks[i].domain)}
    /\ UNCHANGED <<requestDomain, pageDomain, op, result, url, loopVars, seqVars, workerVars, clientVars>>

\* task i calls isKnownTracker(domain)
TaskIsKnownTracker(i) ==
    /\ tasks[i].pc = "classified"
    /\ tasks' = [tasks EXCEPT
                   ![i].isKnownTracker = isKnownTracker(knownTrackers, tasks[i].domain),
                   ![i].pc = "done"]
    /\ UNCHANGED <<classifierVars, url, loopVars, seqVars, workerVars, clientVars>>

NextTasks ==
    \/ \E i \in 1..MaxTasks : TaskIsThirdPartyDomain(i)
    \/ \E i \in 1..MaxTasks : TaskIsKnownTracker(i)

SpecTasks == InitTasks /\ [][NextTasks]_vars

(***************************************************************************)
(* The capped background worker: requests stored per tab                   *)
(***************************************************************************)

\* the number of requests kept per tab
MAX_REQUESTS_PER_TAB == 500

\* number of requests a tab receives beyond the cap, and number of requests
\* the other tabs receive
MaxOverflow == 2

\* tab ids; tab 1 is the tab that receives more requests than are kept
Tabs == {1, 2}

DigitChars == <<"0", "1", "2", "3", "4", "5", "6", "7", "8", "9">>

RECURSIVE ToDigits(_)
\* the decimal spelling of n
ToDigits(n) ==
    IF n < 10 THEN <<DigitChars[n + 1]>>
    ELSE ToDigits(n \div 10) \o <<DigitChars[(n % 10) + 1]>>

\* the URL of the k-th web request of a tab
WebUrl(k) == <<"h", "t", "t", "p", "s", ":", "/", "/", "t", ".", "c", "o", "/">> \o ToDigits(k)

\* URLs of the browser's own pages and of extension pages
BrowserUrls ==
    { <<"c", "h", "r", "o", "m", "e", ":", "/", "/", "n", "e", "w", "t", "a", "b", "/">>,
      <<"c", "h", "r", "o", "m", "e", "-", "e", "x", "t", "e", "n", "s", "i", "o", "n", ":", "/", "/", "a", "b", "c", "/", "x">> }

InitWorker ==
    /\ tabNetworkRequests = <<>>
    /\ recorded = [t \in Tabs |-> <<>>]
    /\ skipped = 0
    /\ requestDomain = <<>>
    /\ pageDomain = <<>>
    /\ knownTrackers = KNOWN_TRACKERS
    /\ op = "none"
    /\ result = FALSE
    /\ url = <<>>
    /\ LoopIdle
    /\ calls = <<>>
    /\ tasks = <<>>
    /\ ClientIdle

\* Map.prototype.set
MapSet(map, key, value) ==
    [k \in (DOMAIN map) \cup {key} |-> IF k = key THEN value ELSE map[k]]

\* the listener keeping the oldest 500 requests: requests.splice(500)
OnBeforeRequest_KeepsOldest(tabId, u) ==
    /\ IF \/ StartsWith(u, <<"c", "h", "r", "o", "m", "e", ":", "/", "/">>)
          \/ StartsWith(u, <<"c", "h", "r", "o", "m", "e", "-", "e", "x", "t", "e", "n", "s", "i", "o", "n", ":", "/", "/">>)
       THEN /\ skipped' = skipped + 1
            /\ UNCHANGED <<tabNetworkRequests, recorded>>
       ELSE LET requestData == [url |-> u, method |-> "GET", type |-> "xmlhttprequest",
                                tabId |-> tabId]
                requests == IF tabId \in DOMAIN tabNetworkRequests
                            THEN tabNetworkRequests[tabId] ELSE <<>>
                pushed == Append(requests, requestData)
                kept == IF Len(pushed) > MAX_REQUESTS_PER_TAB
                        THEN SubSeq(pushed, 1, MAX_REQUESTS_PER_TAB)
                        ELSE pushed
            IN  /\ tabNetworkRequests' = MapSet(tabNetworkRequests, tabId, kept)
                /\ recorded' = [recorded EXCEPT ![tabId] = Append(@, requestData)]
                /\ UNCHANGED skipped
    /\ UNCHANGED <<classifierVars, url, loopVars, seqVars, taskVars, clientVars>>

\* the onBeforeRequest listener on a request of tab tabId for URL u; the
\* timestamp of the stored entry is left out
OnBeforeRequest(tabId, u) ==
    /\ IF \/ StartsWith(u, <<"c", "h", "r", "o", "m", "e", ":", "/", "/">>)
          \/ StartsWith(u, <<"c", "h", "r", "o", "m", "e", "-", "e", "x", "t", "e", "n", "s", "i", "o", "n", ":", "/", "/">>)
       THEN /\ skipped' = skipped + 1
            /\ UNCHANGED <<tabNetworkRequests, recorded>>
       ELSE LET requestData == [url |-> u, method |-> "GET", type |-> "xmlhttprequest",
                                tabId |-> tabId]
                requests == IF tabId \in DOMAIN tabNetworkRequests
                            THEN tabNetworkRequests[tabId] ELSE <<>>
                pushed == Append(requests, requestData)
                kept == IF Len(pushed) > MAX_REQUESTS_PER_TAB
                        THEN SubSeq(pushed, Len(pushed) - MAX_REQUESTS_PER_TAB + 1,
                                    Len(pushed))
                        ELSE pushed
            IN  /\ tabNetworkRequests' = MapSet(tabNetworkRequests, tabId, kept)
                /\ recorded' = [recorded EXCEPT ![tabId] = Append(@, requestData)]
                /\ UNCHANGED skipped
    /\ UNCHANGED <<classifierVars, url, loopVars, seqVars, taskVars, clientVars>>

\* the browser reports the next web request of a tab
WebRequestEvent ==
    \E tabId \in Tabs :
        /\ Len(recorded[tabId]) <
              (IF tabId = 1 THEN MAX_REQUESTS_PER_TAB + MaxOverflow ELSE MaxOverflow)
        /\ OnBeforeRequest(tabId, WebUrl(Len(recorded[tabId]) + 1))

\* the browser reports a request for one of its own pages
BrowserRequestEvent ==
    \E tabId \in Tabs : \E u \in BrowserUrls :
        /\ skipped < MaxOverflow
        /\ OnBeforeRequest(tabId, u)

NextWorker == WebRequestEvent \/ BrowserRequestEvent

SpecWorker == InitWorker /\ [][NextWorker]_vars

(***************************************************************************)
(* The background worker and the content script of the client              *)
(***************************************************************************)

\* number of requests the two listeners observe
MaxRequests == 2

\* a tab id that is absent or zero, and a string that is absent or empty:
\* the values that a || b passes over
NoTabId == 0

NoString == <<>>

\* chrome.runtime.id, and the id of another extension
RuntimeId == "privinspect"

ForeignId == "another-extension"

\* the page the content script runs in
PageHref == <<"h", "t", "t", "p", "s", ":", "/", "/", "s", "h", "o", "p", ".", "c", "o", "m", "/">>

\* window.location.hostname
PageHostname == ParseUrl(PageHref).hostname

staticExtensions ==
    { <<".", "j", "p", "g">>, <<".", "j", "p", "e", "g">>, <<".", "p", "n", "g">>, <<".", "g", "i", "f">>, <<".", "w", "e", "b", "p">>, <<".", "s", "v", "g">>, <<".", "i", "c", "o">>,
      <<".", "b", "m", "p">>, <<".", "c", "s", "s">>, <<".", "w", "o", "f", "f">>, <<".", "w", "o", "f", "f", "2">>, <<".", "t", "t", "f">>, <<".", "e", "o", "t">>, <<".", "m", "p", "4">>,
      <<".", "w", "e", "b", "m">>, <<".", "m", "p", "3">>, <<".", "w", "a", "v">>, <<".", "o", "g", "g">> }

relevantTypes == {"xmlhttprequest", "script", "sub_frame", "ping", "other"}

trackingKeywords ==
    { <<"a", "n", "a", "l", "y", "t", "i", "c", "s">>, <<"t", "r", "a", "c", "k", "i", "n", "g">>, <<"t", "r", "a", "c", "k", "e", "r">>, <<"a", "d", "s">>, <<"d", "o", "u", "b", "l", "e", "c", "l", "i", "c", "k">>,
      <<"g", "o", "o", "g", "l", "e", "t", "a", "g", "m", "a", "n", "a", "g", "e", "r">>, <<"f", "a", "c", "e", "b", "o", "o", "k">>, <<"t", "w", "i", "t", "t", "e", "r">>, <<"l", "i", "n", "k", "e", "d", "i", "n">>,
      <<"h", "o", "t", "j", "a", "r">>, <<"m", "i", "x", "p", "a", "n", "e", "l">>, <<"s", "e", "g", "m", "e", "n", "t">>, <<"a", "m", "p", "l", "i", "t", "u", "d", "e">>, <<"i", "n", "t", "e", "r", "c", "o", "m">> }

\* isPrivacyRelevantRequest without the test of the tracking keywords
isPrivacyRelevantRequest_NoKeywords(details) ==
    LET u == toLowerCase(details.url)
    IN  IF \E ext \in staticExtensions : Includes(u, ext) THEN FALSE
        ELSE IF details.type \in relevantTypes THEN TRUE
        ELSE FALSE

\* isPrivacyRelevantRequest of the background worker
isPrivacyRelevantRequest(details) ==
    LET u == toLowerCase(details.url)
    IN  IF \E ext \in staticExtensions : Includes(u, ext) THEN FALSE
        ELSE IF details.type \in relevantTypes THEN TRUE
        ELSE IF \E keyword \in trackingKeywords : Includes(u, keyword) THEN TRUE
        ELSE IF details.type = "main_frame" THEN FALSE
        ELSE FALSE

\* isPrivacyRelevantRequest of the content script
isPrivacyRelevantRequestContent(u) ==
    LET urlLower == toLowerCase(u)
    IN  IF \/ StartsWith(urlLower, <<"c", "h", "r", "o", "m", "e", ":", "/", "/">>)
           \/ StartsWith(urlLower, <<"c", "h", "r", "o", "m", "e", "-", "e", "x", "t", "e", "n", "s", "i", "o", "n", ":", "/", "/">>)
        THEN FALSE
        ELSE IF \E ext \in staticExtensions : Includes(urlLower, ext) THEN FALSE
        ELSE IF \E keyword \in trackingKeywords : Includes(urlLower, keyword) THEN TRUE
        ELSE TRUE

\* the requests the browser reports to the background listener
BackgroundDetails ==
    { [url |-> <<"h", "t", "t", "p", "s", ":", "/", "/", "s", "h", "o", "p", ".", "c", "o", "m", "/", "a", "p", "p">>, method |-> "GET", type |-> "script"],
      [url |-> <<"h", "t", "t", "p", "s", ":", "/", "/", "a", "d", "s", ".", "n", "e", "t", "/", "t">>, method |-> "POST", type |-> "image"],
      [url |-> <<"h", "t", "t", "p", "s", ":", "/", "/", "a", "d", "s", ".", "n", "e", "t", "/", "p", ".", "g", "i", "f">>, method |-> "GET", type |-> "image"],
      [url |-> <<"h", "t", "t", "p", "s", ":", "/", "/", "s", "h", "o", "p", ".", "c", "o", "m", "/">>, method |-> "GET", type |-> "main_frame"],
      [url |-> <<"c", "h", "r", "o", "m", "e", ":", "/", "/", "n", "e", "w", "t", "a", "b", "/">>, method |-> "GET", type |-> "other"] }

\* the URLs the page fetches
FetchUrls ==
    { <<"h", "t", "t", "p", "s", ":", "/", "/", "s", "h", "o", "p", ".", "c", "o", "m", "/", "a", "p", "i">>, <<"/", "a", "p", "i", "/", "d", "a", "t", "a">>, <<"h", "t", "t", "p", "s", ":", "/", "/", "c", "d", "n", ".", "n", "e", "t", "/", "x">>,
      <<"h", "t", "t", "p", "s", ":", "/", "/", "s", "h", "o", "p", ".", "c", "o", "m", "/", "a", "d", "s">>, <<"h", "t", "t", "p", "s", ":", "/", "/", "a", "d", "s", ".", "n", "e", "t", "/", "p", ".", "g", "i", "f">> }

\* the cookies chrome.cookies.getAll may find
CookieJars ==
    { <<>>,
      <<[domain |-> <<"s", "h", "o", "p", ".", "c", "o", "m">>, secure |-> TRUE, expirationDate |-> 100, session |-> FALSE]>> }

\* the messages sent to the background worker
BackgroundMessages ==
    { [type |-> t, tabId |-> NoTabId, url |-> NoString, domain |-> NoString] :
        t \in {"PING", "ANALYZE_PAGE", "COLLECT_PRIVACY_DATA", "GET_COOKIES",
               "GET_DETAILED_COOKIES", "GET_NETWORK_REQUESTS", "CLEAR_TAB_DATA"} }
    \cup
    { [type |-> t, tabId |-> NoTabId, url |-> ud[1], domain |-> ud[2]] :
        t \in {"GET_COOKIES", "GET_DETAILED_COOKIES"},
        ud \in {<<PageHref, NoString>>, <<NoString, PageHostname>>} }
    \cup
    { [type |-> t, tabId |-> i, url |-> NoString, domain |-> NoString] :
        t \in {"GET_NETWORK_REQUESTS", "CLEAR_TAB_DATA"}, i \in Tabs }

\* the messages sent to the content script
ContentMessages ==
    { [type |-> t, tabId |-> NoTabId, url |-> NoString, domain |-> NoString] :
        t \in {"COLLECT_PRIVACY_DATA", "PING"} }

\* the senders of a message: the popup and the content scripts of the
\* extension, and another extension
Senders ==
    { [id |-> RuntimeId, tab |-> t] : t \in {NoTabId, 1} }
    \cup { [id |-> ForeignId, tab |-> NoTabId] }

InitExtension ==
    /\ tabNetworkRequests = <<>>
    /\ recorded = [t \in Tabs |-> <<>>]
    /\ skipped = 0
    /\ cleared = [t \in Tabs |-> 0]
    /\ dropped = {}
    /\ msg = NoMessage
    /\ networkRequests = <<>>
    /\ analyticsFlags = <<>>
    /\ requestDomain = <<>>
    /\ pageDomain = <<>>
    /\ knownTrackers = KNOWN_TRACKERS
    /\ op = "none"
    /\ result = FALSE
    /\ url = <<>>
    /\ LoopIdle
    /\ calls = <<>>
    /\ tasks = <<>>
    /\ ApiIdle

\* Map.prototype.delete
MapDelete(map, key) == [k \in (DOMAIN map) \ {key} |-> map[k]]

\* Map.prototype.get(key) || []
MapGetOrEmpty(map, key) == IF key \in DOMAIN map THEN map[key] ELSE <<>>

\* the number of requests the two listeners have observed
Observed ==
    Len(recorded[1]) + Len(recorded[2]) + skipped
       + Len(networkRequests) + Cardinality({ d \in dropped : d.listener = "content" })

\* an onBeforeRequest listener that keeps the requests of all tabs in the
\* array of tab 1; the timestamp of the stored entry is left out
BackgroundOnBeforeRequest_OneArray(details) ==
    /\ IF \/ StartsWith(details.url, <<"c", "h", "r", "o", "m", "e", ":", "/", "/">>)
          \/ StartsWith(details.url, <<"c", "h", "r", "o", "m", "e", "-", "e", "x", "t", "e", "n", "s", "i", "o", "n", ":", "/", "/">>)
          \/ ~isPrivacyRelevantRequest(details)
       THEN /\ dropped' = dropped \cup {[listener |-> "background", url |-> details.url,
                                         type |-> details.type]}
            /\ skipped' = skipped + 1
            /\ UNCHANGED <<tabNetworkRequests, recorded>>
       ELSE LET requestData == [url |-> details.url, method |-> details.method,
                                type |-> details.type, tabId |-> details.tabId]
                requests == MapGetOrEmpty(tabNetworkRequests, 1)
            IN  /\ tabNetworkRequests' =
                       MapSet(tabNetworkRequests, 1, Append(requests, requestData))
                /\ recorded' = [recorded EXCEPT ![details.tabId] = Append(@, requestData)]
                /\ UNCHANGED <<dropped, skipped>>
    /\ UNCHANGED <<cleared, msg, networkRequests, analyticsFlags>>
    /\ UNCHANGED <<classifierVars, url, loopVars, seqVars, taskVars, apiVars>>

\* the onBeforeRequest listener of the background worker; the timestamp of the stored entry is left out
BackgroundOnBeforeRequest(details) ==
    /\ IF \/ StartsWith(details.url, <<"c", "h", "r", "o", "m", "e", ":", "/", "/">>)
          \/ StartsWith(details.url, <<"c", "h", "r", "o", "m", "e", "-", "e", "x", "t", "e", "n", "s", "i", "o", "n", ":", "/", "/">>)
          \/ ~isPrivacyRelevantRequest(details)
       THEN /\ dropped' = dropped \cup {[listener |-> "background", url |-> details.url,
                                         type |-> details.type]}
            /\ skipped' = skipped + 1
            /\ UNCHANGED <<tabNetworkRequests, recorded>>
       ELSE LET requestData == [url |-> details.url, method |-> details.method,
                                type |-> details.type, tabId |-> details.tabId]
                requests == MapGetOrEmpty(tabNetworkRequests, details.tabId)
            IN  /\ tabNetworkRequests' =
                       MapSet(tabNetworkRequests, details.tabId, Append(requests, requestData))
                /\ recorded' = [recorded EXCEPT ![details.tabId] = Append(@, requestData)]
                /\ UNCHANGED <<dropped, skipped>>
    /\ UNCHANGED <<cleared, msg, networkRequests, analyticsFlags>>
    /\ UNCHANGED <<classifierVars, url, loopVars, seqVars, taskVars, apiVars>>

\* a tabs.onRemoved listener that leaves the Map alone
OnTabRemoved_KeepsRequests(tabId) ==
    /\ cleared' = [cleared EXCEPT ![tabId] = Len(recorded[tabId])]
    /\ UNCHANGED <<tabNetworkRequests, recorded, skipped, dropped, msg, networkRequests,
                   analyticsFlags>>
    /\ UNCHANGED <<classifierVars, url, loopVars, seqVars, taskVars, apiVars>>

\* the tabs.onRemoved listener
OnTabRemoved(tabId) ==
    /\ tabNetworkRequests' = MapDelete(tabNetworkRequests, tabId)
    /\ cleared' = [cleared EXCEPT ![tabId] = Len(recorded[tabId])]
    /\ UNCHANGED <<recorded, skipped, dropped, msg, networkRequests, analyticsFlags>>
    /\ UNCHANGED <<classifierVars, url, loopVars, seqVars, taskVars, apiVars>>

\* a || b of JavaScript on tab ids and on strings
OrElseTabId(a, b) == IF a # NoTabId THEN a ELSE b

OrElseString(a, b) == IF a # NoString THEN a ELSE b

\* the state of a message the listener returned from without a response
Rejected(handler, message, sender) ==
    [handler |-> handler, type |-> message.type, senderId |-> sender.id,
     tabId |-> NoTabId, url |-> NoString,
     responses |-> <<>>, pending |-> FALSE, returned |-> "undefined"]

\* the tab a GET_NETWORK_REQUESTS or CLEAR_TAB_DATA message is about:
\* sender.tab?.id || message.tabId
MessageTabId(message, sender) ==
    IF message.type \in {"GET_NETWORK_REQUESTS", "CLEAR_TAB_DATA"}
    THEN OrElseTabId(sender.tab, message.tabId)
    ELSE NoTabId

\* the URL a cookie request is about: message.url || message.domain
MessageUrl(message) ==
    IF message.type \in {"GET_COOKIES", "GET_DETAILED_COOKIES"}
    THEN OrElseString(message.url, message.domain)
    ELSE NoString

\* the state of a message the listener answered with sendResponse(response)
\* before it returned true
Answered(handler, message, sender, response) ==
    [handler |-> handler, type |-> message.type, senderId |-> sender.id,
     tabId |-> MessageTabId(message, sender), url |-> MessageUrl(message),
     responses |-> <<response>>, pending |-> FALSE, returned |-> "true"]

\* the state of a message the listener returned true for, leaving the
\* response to a callback
Deferred(handler, message, sender) ==
    [handler |-> handler, type |-> message.type, senderId |-> sender.id,
     tabId |-> MessageTabId(message, sender), url |-> MessageUrl(message),
     responses |-> <<>>, pending |-> TRUE, returned |-> "true"]

\* the onMessage listener of the background worker without the test of
\* sender.id
BackgroundOnMessage_NoSenderCheck(message, sender) ==
    /\ ~msg.pending
    /\ CASE message.type = "PING" ->
                   /\ msg' = Answered("background", message, sender,
                                [key |-> "status",
                                 value |-> "Background service worker is active"])
                   /\ UNCHANGED <<tabNetworkRequests, cleared>>
              [] message.type \in {"GET_COOKIES", "GET_DETAILED_COOKIES"} ->
                   /\ msg' = IF MessageUrl(message) # NoString
                             THEN Deferred("background", message, sender)
                             ELSE Answered("background", message, sender,
                                           [key |-> "cookies", value |-> <<>>])
                   /\ UNCHANGED <<tabNetworkRequests, cleared>>
              [] message.type = "GET_NETWORK_REQUESTS" ->
                   LET tabId == MessageTabId(message, sender)
                       requests == MapGetOrEmpty(tabNetworkRequests, tabId)
                   IN  /\ msg' = Answered("background", message, sender,
                                          [key |-> "requests", value |-> requests])
                       /\ UNCHANGED <<tabNetworkRequests, cleared>>
              [] message.type = "CLEAR_TAB_DATA" ->
                   LET clearTabId == MessageTabId(message, sender)
                   IN  /\ tabNetworkRequests' = MapDelete(tabNetworkRequests, clearTabId)
                       /\ cleared' = IF clearTabId \in Tabs
                                     THEN [cleared EXCEPT ![clearTabId] = Len(recorded[clearTabId])]
                                     ELSE cleared
                       /\ msg' = Answered("background", message, sender,
                                          [key |-> "status", value |-> "cleared"])
              [] message.type = "ANALYZE_PAGE" ->
                   /\ msg' = Answered("background", message, sender,
                                      [key |-> "status", value |-> "Analysis queued"])
                   /\ UNCHANGED <<tabNetworkRequests, cleared>>
              [] OTHER ->
                   /\ msg' = Answered("background", message, sender,
                                      [key |-> "error", value |-> "Unknown message type"])
                   /\ UNCHANGED <<tabNetworkRequests, cleared>>
    /\ UNCHANGED <<recorded, skipped, dropped, networkRequests, analyticsFlags>>
    /\ UNCHANGED <<classifierVars, url, loopVars, seqVars, taskVars, apiVars>>

\* the onMessage listener of the background worker
BackgroundOnMessage(message, sender) ==
    /\ ~msg.pending
    /\ IF sender.id # RuntimeId
       THEN /\ msg' = Rejected("background", message, sender)
            /\ UNCHANGED <<tabNetworkRequests, cleared>>
       ELSE CASE message.type = "PING" ->
                   /\ msg' = Answered("background", message, sender,
                                [key |-> "status",
                                 value |-> "Background service worker is active"])
                   /\ UNCHANGED <<tabNetworkRequests, cleared>>
              [] message.type \in {"GET_COOKIES", "GET_DETAILED_COOKIES"} ->
                   /\ msg' = IF MessageUrl(message) # NoString
                             THEN Deferred("background", message, sender)
                             ELSE Answered("background", message, sender,
                                           [key |-> "cookies", value |-> <<>>])
                   /\ UNCHANGED <<tabNetworkRequests, cleared>>
              [] message.type = "GET_NETWORK_REQUESTS" ->
                   LET tabId == MessageTabId(message, sender)
                       requests == MapGetOrEmpty(tabNetworkRequests, tabId)
                   IN  /\ msg' = Answered("background", message, sender,
                                          [key |-> "requests", value |-> requests])
                       /\ UNCHANGED <<tabNetworkRequests, cleared>>
              [] message.type = "CLEAR_TAB_DATA" ->
                   LET clearTabId == MessageTabId(message, sender)
                   IN  /\ tabNetworkRequests' = MapDelete(tabNetworkRequests, clearTabId)
                       /\ cleared' = IF clearTabId \in Tabs
                                     THEN [cleared EXCEPT ![clearTabId] = Len(recorded[clearTabId])]
                                     ELSE cleared
                       /\ msg' = Answered("background", message, sender,
                                          [key |-> "status", value |-> "cleared"])
              [] message.type = "ANALYZE_PAGE" ->
                   /\ msg' = Answered("background", message, sender,
                                      [key |-> "status", value |-> "Analysis queued"])
                   /\ UNCHANGED <<tabNetworkRequests, cleared>>
              [] OTHER ->
                   /\ msg' = Answered("background", message, sender,
                                      [key |-> "error", value |-> "Unknown message type"])
                   /\ UNCHANGED <<tabNetworkRequests, cleared>>
    /\ UNCHANGED <<recorded, skipped, dropped, networkRequests, analyticsFlags>>
    /\ UNCHANGED <<classifierVars, url, loopVars, seqVars, taskVars, apiVars>>

\* chrome.cookies.getAll({url}, callback): the callback gets the cookies
\* found for a URL that parses, and undefined (with runtime.lastError set)
\* for one that does not
CookiesGetAll(u, jar) ==
    IF ParseUrl(u).ok THEN [lastError |-> FALSE, cookies |-> jar]
    ELSE [lastError |-> TRUE, cookies |-> <<>>]

\* cookies.map(cookie => ({domain, secure, expirationDate, session}))
CookieData(cookies) ==
    [i \in 1..Len(cookies) |->
        [domain |-> cookies[i].domain, secure |-> cookies[i].secure,
         expirationDate |-> cookies[i].expirationDate, session |-> cookies[i].session]]

\* the callback the background worker passes to chrome.cookies.getAll:
\* cookies.map throws on undefined, before sendResponse is reached
CookiesCallback(jar) ==
    /\ msg.pending
    /\ msg.handler = "background"
    /\ LET got == CookiesGetAll(msg.url, jar)
       IN  msg' = IF got.lastError
                  THEN [msg EXCEPT !.pending = FALSE]
                  ELSE [msg EXCEPT !.pending = FALSE,
                                   !.responses = Append(@, [key |-> "cookies",
                                                            value |-> CookieData(got.cookies)])]
    /\ UNCHANGED <<tabNetworkRequests, recorded, skipped, cleared, dropped,
                   networkRequests, analyticsFlags>>
    /\ UNCHANGED <<classifierVars, url, loopVars, seqVars, taskVars, apiVars>>

\* the window.fetch override of the content script on fetch(u)
Fetch(u) ==
    /\ IF isPrivacyRelevantRequestContent(u)
       THEN /\ networkRequests' = Append(networkRequests,
                                     [url |-> u, method |-> "GET", type |-> "xmlhttprequest"])
            /\ UNCHANGED dropped
       ELSE /\ dropped' = dropped \cup {[listener |-> "content", url |-> u,
                                         type |-> "xmlhttprequest"]}
            /\ UNCHANGED networkRequests
    /\ UNCHANGED <<tabNetworkRequests, recorded, skipped, cleared, msg, analyticsFlags>>
    /\ UNCHANGED <<classifierVars, url, loopVars, seqVars, taskVars, apiVars>>

\* the onMessage listener of the content script; collectComprehensivePrivacyData
\* runs up to its await of the cookies
ContentOnMessage(message, sender) ==
    /\ ~msg.pending
    /\ msg' = IF sender.id # RuntimeId
              THEN Rejected("content", message, sender)
              ELSE IF message.type = "COLLECT_PRIVACY_DATA"
              THEN Deferred("content", message, sender)
              ELSE Answered("content", message, sender,
                            [key |-> "error", value |-> "Unknown message type"])
    /\ UNCHANGED <<tabNetworkRequests, recorded, skipped, cleared, dropped,
                   networkRequests, analyticsFlags>>
    /\ UNCHANGED <<classifierVars, url, loopVars, seqVars, taskVars, apiVars>>

highPriorityKeywords ==
    trackingKeywords \cup { <<"g", "o", "o", "g", "l", "e", "-", "a", "n", "a", "l", "y", "t", "i", "c", "s">>, <<"g", "t", "a", "g">>, <<"f", "b", "q">>, <<"p", "i", "x", "e", "l">> }

\* the predicate of networkRequestsData.filter
ForwardedRequest(req) ==
    LET u == toLowerCase(req.url)
        isHighPriority == \E keyword \in highPriorityKeywords : Includes(u, keyword)
        isThirdParty == getDomainFromUrl(req.url) # PageHostname
        isApiCall == req.type = "xmlhttprequest" \/ req.type = "other"
    IN  isHighPriority \/ (isThirdParty /\ (isApiCall \/ req.type = "script"))

RECURSIVE Filter(_, _)
\* Array.prototype.filter with the predicate above, on the first n entries
Filter(requests, n) ==
    IF n = 0 THEN <<>>
    ELSE IF ForwardedRequest(requests[n])
         THEN Append(Filter(requests, n - 1), requests[n])
         ELSE Filter(requests, n - 1)

\* the analytics the page holds: detected_analytics
DetectedAnalytics == <<"data_layer">>

\* the value collectComprehensivePrivacyData resolves to
PrivacyData(cookieData) ==
    LET filteredRequests == Filter(networkRequests, Len(networkRequests))
    IN  [page_url |-> PageHref,
         page_domain |-> PageHostname,
         raw_cookies |-> cookieData,
         network_requests |->
            [i \in 1..Len(filteredRequests) |->
                [url |-> filteredRequests[i].url,
                 method |-> filteredRequests[i].method,
                 type |-> filteredRequests[i].type,
                 domain |-> getDomainFromUrl(filteredRequests[i].url)]],
         analytics_flags |-> DetectedAnalytics]

\* collectComprehensivePrivacyData after its await: the cookies of the
\* background worker's reply have arrived, the page is inspected, the
\* requests are filtered and the promise resolves, which sends the response
CollectResolved(jar) ==
    /\ msg.pending
    /\ msg.handler = "content"
    /\ analyticsFlags' = DetectedAnalytics
    /\ msg' = [msg EXCEPT !.pending = FALSE,
                          !.responses = Append(@, [key |-> "data",
                                                   value |-> PrivacyData(CookieData(jar))])]
    /\ UNCHANGED <<tabNetworkRequests, recorded, skipped, cleared, dropped, networkRequests>>
    /\ UNCHANGED <<classifierVars, url, loopVars, seqVars, taskVars, apiVars>>

\* collectComprehensivePrivacyData rejects: chrome.runtime.sendMessage threw
\* because the extension context is gone, and the catch sends the error
CollectRejected ==
    /\ msg.pending
    /\ msg.handler = "content"
    /\ msg' = [msg EXCEPT !.pending = FALSE,
                          !.responses = Append(@, [key |-> "error",
                                                   value |-> "Failed to collect privacy data"])]
    /\ UNCHANGED <<tabNetworkRequests, recorded, skipped, cleared, dropped,
                   networkRequests, analyticsFlags>>
    /\ UNCHANGED <<classifierVars, url, loopVars, seqVars, taskVars, apiVars>>

\* the browser reports a request of a tab
BackgroundRequestEvent ==
    \E tabId \in Tabs : \E d \in BackgroundDetails :
        /\ Observed < MaxRequests
        /\ BackgroundOnBeforeRequest([url |-> d.url, method |-> d.method,
                                      type |-> d.type, tabId |-> tabId])

\* a tab is closed
TabRemovedEvent == \E tabId \in Tabs : OnTabRemoved(tabId)

\* a message reaches the background worker
BackgroundMessageEvent ==
    \E message \in BackgroundMessages : \E sender \in Senders :
        BackgroundOnMessage(message, sender)

\* chrome.cookies.getAll calls back
CookiesCallbackEvent == \E jar \in CookieJars : CookiesCallback(jar)

\* the page calls fetch
FetchEvent ==
    \E u \in FetchUrls :
        /\ Observed < MaxRequests
        /\ Fetch(u)

\* a message reaches the content script
ContentMessageEvent ==
    \E message \in ContentMessages : \E sender \in Senders :
        ContentOnMessage(message, sender)

\* the data collection of the content script ends
CollectEvent ==
    \/ \E jar \in CookieJars : CollectResolved(jar)
    \/ CollectRejected

NextExtension ==
    \/ BackgroundRequestEvent
    \/ TabRemovedEvent
    \/ BackgroundMessageEvent
    \/ CookiesCallbackEvent
    \/ FetchEvent
    \/ ContentMessageEvent
    \/ CollectEvent

SpecExtension == InitExtension /\ [][NextExtension]_vars

(***************************************************************************)
(* ApiService.isTokenValid                                                 *)
(***************************************************************************)

\* the characters of the codes 32 to 126; the grave accent, code 96, is
\* spelled out
Ascii ==
    << " ", "!", "\"", "#", "$", "%", "&", "'", "(", ")", "*", "+", ",", "-", ".", "/",
       "0", "1", "2", "3", "4", "5", "6", "7", "8", "9", ":", ";", "<", "=", ">", "?",
       "@", "A", "B", "C", "D", "E", "F", "G", "H", "I", "J", "K", "L", "M", "N", "O",
       "P", "Q", "R", "S", "T", "U", "V", "W", "X", "Y", "Z", "[", "\\", "]", "^", "_",
       "<grave>", "a", "b", "c", "d", "e", "f", "g", "h", "i", "j", "k", "l", "m", "n", "o",
       "p", "q", "r", "s", "t", "u", "v", "w", "x", "y", "z", "{", "|", "}", "~" >>

\* the base64 alphabet, in the order of the values 0 to 63
Base64Alphabet ==
    << "A", "B", "C", "D", "E", "F", "G", "H", "I", "J", "K", "L", "M", "N", "O", "P",
       "Q", "R", "S", "T", "U", "V", "W", "X", "Y", "Z", "a", "b", "c", "d", "e", "f",
       "g", "h", "i", "j", "k", "l", "m", "n", "o", "p", "q", "r", "s", "t", "u", "v",
       "w", "x", "y", "z", "0", "1", "2", "3", "4", "5", "6", "7", "8", "9", "+", "/" >>

RECURSIVE DigitsValue(_)
\* the number a sequence of decimal digits spells
DigitsValue(ds) ==
    IF ds = <<>> THEN 0
    ELSE DigitsValue(SubSeq(ds, 1, Len(ds) - 1)) * 10
            + ((CHOOSE d \in 1..10 : DigitChars[d] = ds[Len(ds)]) - 1)

\* String.prototype.replace(/a/g, b) for a single character a
ReplaceAll(s, a, b) == [i \in 1..Len(s) |-> IF s[i] = a THEN b ELSE s[i]]

\* the character of a byte of a binary string; the bytes below 32 and the
\* byte 127 are control characters, the bytes from 128 on are other characters
ByteChar(b) ==
    IF b >= 32 /\ b <= 126 THEN Ascii[b - 31]
    ELSE IF b >= 128 THEN "<other>"
    ELSE "<control>"

\* atob(s): [ok |-> FALSE] when it throws InvalidCharacterError, else the
\* decoded binary string.  Up to two "=" are dropped from the end of an input
\* whose length is a multiple of four; what is left must hold characters of
\* the alphabet only and must not have a length of 1 modulo 4.
atob(s) ==
    LET pad == IF Len(s) % 4 # 0 \/ Len(s) = 0 THEN 0
               ELSE IF s[Len(s)] # "=" THEN 0
               ELSE IF s[Len(s) - 1] # "=" THEN 1
               ELSE 2
        data == SubSeq(s, 1, Len(s) - pad)
        valid == /\ Len(data) % 4 # 1
                 /\ \A i \in 1..Len(data) :
                       \E v \in 1..64 : Base64Alphabet[v] = data[i]
        value(i) == (CHOOSE v \in 1..64 : Base64Alphabet[v] = data[i]) - 1
        \* byte k, counted from 0, lies in the sextets q and q + 1
        byte(k) == LET q == (8 * k) \div 6
                       r == (8 * k) % 6
                   IN  ((value(q + 1) * 64 + value(q + 2)) \div (2 ^ (4 - r))) % 256
    IN  IF ~valid THEN [ok |-> FALSE, value |-> <<>>]
        ELSE [ok |-> TRUE,
              value |-> [k \in 1..((Len(data) * 6) \div 8) |-> ByteChar(byte(k - 1))]]

\* the value undefined of JavaScript
JsUndefined == [t |-> "undefined", v |-> 0]

\* the literal, the number or the string that starts at position i of s:
\* null, true, false, an integer without fraction and exponent, or a string
\* without escapes; [ok |-> FALSE] when none does
ParseScalar(s, i) ==
    LET bad == [ok |-> FALSE, value |-> JsUndefined, next |-> i]
        at(word) == i + Len(word) - 1 <= Len(s) /\ SubSeq(s, i, i + Len(word) - 1) = word
        neg == i <= Len(s) /\ s[i] = "-"
        first == IF neg THEN i + 1 ELSE i
        stop == CHOOSE n \in first..(Len(s) + 1) :
                    /\ \A k \in first..(n - 1) : s[k] \in Digits
                    /\ (n = Len(s) + 1 \/ s[n] \notin Digits)
        digits == SubSeq(s, first, stop - 1)
        quote == FirstOf(s, {"\""}, i + 1)
        text == SubSeq(s, i + 1, quote - 1)
    IN  IF i > Len(s) THEN bad
        ELSE IF at(<<"n", "u", "l", "l">>) THEN [ok |-> TRUE, value |-> [t |-> "null", v |-> 0], next |-> i + 4]
        ELSE IF at(<<"t", "r", "u", "e">>) THEN [ok |-> TRUE, value |-> [t |-> "boolean", v |-> 1], next |-> i + 4]
        ELSE IF at(<<"f", "a", "l", "s", "e">>) THEN [ok |-> TRUE, value |-> [t |-> "boolean", v |-> 0], next |-> i + 5]
        ELSE IF s[i] = "\""
             THEN IF /\ quote <= Len(s)
                     /\ \A k \in 1..Len(text) : text[k] \notin {"\\", "<control>"}
                  THEN [ok |-> TRUE, value |-> [t |-> "string", v |-> text], next |-> quote + 1]
                  ELSE bad
        ELSE IF /\ Len(digits) >= 1
                /\ (Len(digits) > 1 => digits[1] # "0")
                /\ (stop > Len(s) \/ s[stop] \notin {".", "e", "E"})
             THEN [ok |-> TRUE,
                   value |-> [t |-> "number",
                              v |-> IF neg THEN 0 - DigitsValue(digits) ELSE DigitsValue(digits)],
                   next |-> stop]
        ELSE bad

RECURSIVE ParseMembers(_, _, _)
\* the members of an object from position i of s on, i being the position
\* after "{" or after a ","; members holds the pairs read so far
ParseMembers(s, i, members) ==
    LET bad == [ok |-> FALSE, value |-> JsUndefined, next |-> i]
        key == ParseScalar(s, i)
        val == ParseScalar(s, key.next + 1)
        more == Append(members, <<key.value.v, val.value>>)
    IN  IF ~(key.ok /\ key.value.t = "string") THEN bad
        ELSE IF ~(key.next <= Len(s) /\ s[key.next] = ":") THEN bad
        ELSE IF ~val.ok THEN bad
        ELSE IF val.next > Len(s) THEN bad
        ELSE IF s[val.next] = "}"
             THEN [ok |-> TRUE, value |-> [t |-> "object", v |-> more], next |-> val.next + 1]
        ELSE IF s[val.next] = "," THEN ParseMembers(s, val.next + 1, more)
        ELSE bad

\* JSON.parse(s) on a text without white space that holds a literal, an
\* integer, a string or an object of such values: [ok |-> FALSE] when it
\* throws SyntaxError
JsonParse(s) ==
    LET parsed == IF Len(s) >= 2 /\ s[1] = "{" /\ s[2] = "}"
                  THEN [ok |-> TRUE, value |-> [t |-> "object", v |-> <<>>], next |-> 3]
                  ELSE IF Len(s) >= 1 /\ s[1] = "{" THEN ParseMembers(s, 2, <<>>)
                  ELSE ParseScalar(s, 1)
    IN  IF parsed.ok /\ parsed.next = Len(s) + 1
        THEN [ok |-> TRUE, value |-> parsed.value]
        ELSE [ok |-> FALSE, value |-> JsUndefined]

\* payload.exp: [ok |-> FALSE] when it throws TypeError (payload is null),
\* else the value of the last member named exp, undefined when there is none
GetExp(payload) ==
    IF payload.t = "null" THEN [ok |-> FALSE, value |-> JsUndefined]
    ELSE IF payload.t # "object" THEN [ok |-> TRUE, value |-> JsUndefined]
    ELSE LET named == { k \in 1..Len(payload.v) : payload.v[k][1] = <<"e", "x", "p">> }
         IN  IF named = {} THEN [ok |-> TRUE, value |-> JsUndefined]
             ELSE [ok |-> TRUE,
                   value |-> payload.v[CHOOSE k \in named : \A j \in named : j <= k][2]]

\* ToNumber(x): [nan |-> TRUE] for NaN
ToNumber(x) ==
    CASE x.t = "number" -> [nan |-> FALSE, n |-> x.v]
      [] x.t = "boolean" -> [nan |-> FALSE, n |-> x.v]
      [] x.t = "null" -> [nan |-> FALSE, n |-> 0]
      [] x.t = "string" ->
            IF x.v = <<>> THEN [nan |-> FALSE, n |-> 0]
            ELSE IF \A k \in 1..Len(x.v) : x.v[k] \in Digits
                 THEN [nan |-> FALSE, n |-> DigitsValue(x.v)]
                 ELSE [nan |-> TRUE, n |-> 0]
      [] OTHER -> [nan |-> TRUE, n |-> 0]

\* isTokenValid comparing with payload.exp, without the 30 seconds
isTokenValid_NoMargin(tok, now) ==
    IF tok = <<>> THEN FALSE
    ELSE LET parts == Split(tok, {"."})
         IN  IF Len(parts) # 3 THEN FALSE
             ELSE LET base64 == ReplaceAll(ReplaceAll(parts[2], "-", "+"), "_", "/")
                      decoded == atob(base64)
                      payload == JsonParse(decoded.value)
                      exp == GetExp(payload.value)
                      limit == ToNumber(exp.value)
                  IN  IF ~decoded.ok THEN FALSE
                      ELSE IF ~payload.ok THEN FALSE
                      ELSE IF ~exp.ok THEN FALSE
                      ELSE IF limit.nan THEN FALSE
                      ELSE now < limit.n

\* ApiService.isTokenValid(token) at the time now, in seconds; a token that
\* is null or empty is the empty sequence; every exception ends in the catch
isTokenValid(tok, now) ==
    IF tok = <<>> THEN FALSE
    ELSE LET parts == Split(tok, {"."})
         IN  IF Len(parts) # 3 THEN FALSE
             ELSE LET base64 == ReplaceAll(ReplaceAll(parts[2], "-", "+"), "_", "/")
                      decoded == atob(base64)
                      payload == JsonParse(decoded.value)
                      exp == GetExp(payload.value)
                      limit == ToNumber(exp.value)
                  IN  IF ~decoded.ok THEN FALSE
                      ELSE IF ~payload.ok THEN FALSE
                      ELSE IF ~exp.ok THEN FALSE
                      ELSE IF limit.nan THEN FALSE
                      ELSE now < limit.n - 30

\* the tokens isTokenValid is called with
Tokens ==
    { <<>>,
      <<"h", ".", "e", "y", "J", "l", "e", "H", "A", "i", "O", "j", "E", "w", "M", "H", "0", ".", "s">>,
      <<"h", ".", "e", "y", "J", "l", "e", "H", "A", "i", "O", "j", "E", "w", "M", "H", "0", "=", ".", "s">>,
      <<"h", ".", "e", "y", "J", "z", "d", "W", "I", "i", "O", "i", "J", "h", "I", "n", "0", ".", "s">>,
      <<"h", ".", "b", "n", "V", "s", "b", "A", ".", "s">>,
      <<"h", ".", "N", "Q", ".", "s">>,
      <<"h", ".", "e", "y", "J", "l", "e", "H", "A", "i", "O", "i", "I", "x", "M", "D", "A", "i", "f", "Q", ".", "s">>,
      <<"h", ".", "Y", "W", "J", "j", ".", "s">>,
      <<"h", ".", "e", "y", "J", "l", "e", "H", "A", "i", "O", "j", "E", "w", "M", "A", ".", "s">>,
      <<"h", ".", "e", "y", "J", "z", "I", "j", "o", "i", "P", "z", "8", "-", "I", "i", "w", "i", "Z", "X", "h", "w", "I", "j", "o", "x", "M", "D", "B", "9", ".", "s">>,
      <<"h", ".", "e", "y", "J", "l", "e", "H", "A", "i", "O", "m", "5", "1", "b", "G", "x", "9", ".", "s">>,
      <<"h", ".", "e", "y", "J", "l", "e", "H", "A", "i", "O", "j", "E", "w", "M", "C", "w", "i", "Z", "X", "h", "w", "I", "j", "o", "0", "M", "H", "0", ".", "s">>,
      <<"h", ".", "e", "3", "0", ".", "s">>,
      <<"h", ".", "a", "!", "b", ".", "s">>,
      <<"h", ".", "a", "b", "c", "d", "e", ".", "s">>,
      <<"h", ".", "e", "y", "J", "l", "e", "H", "A", "i", "O", "j", "E", "w", "M", "H", "0">>,
      <<"h", ".", "e", "y", "J", "l", "e", "H", "A", "i", "O", "j", "E", "w", "M", "H", "0", ".", "s", ".", "x">>,
      <<"e", "y", "J", "l", "e", "H", "A", "i", "O", "j", "E", "w", "M", "H", "0">>,
      <<".", ".">> }

\* the values of Math.floor(Date.now() / 1000)
Times == {0, 9, 10, 69, 70, 71, 100}

InitToken ==
    /\ token \in Tokens
    /\ currentTime \in Times
    /\ requestDomain = <<>>
    /\ pageDomain = <<>>
    /\ knownTrackers = KNOWN_TRACKERS
    /\ op = "none"
    /\ result = FALSE
    /\ url = <<>>
    /\ LoopIdle
    /\ calls = <<>>
    /\ tasks = <<>>
    /\ WorkerIdle
    /\ ExtensionIdle
    /\ PopupIdle
    /\ RetryIdle

\* a call of ApiService.isTokenValid(token)
CallIsTokenValid ==
    /\ op = "none"
    /\ op' = "isTokenValid"
    /\ result' = isTokenValid(token, currentTime)
    /\ UNCHANGED <<requestDomain, pageDomain, knownTrackers, token, currentTime>>
    /\ UNCHANGED <<url, loopVars, seqVars, taskVars, workerVars, extensionVars, popupVars, retryVars>>

NextToken == CallIsTokenValid

SpecToken == InitToken /\ [][NextToken]_vars

(***************************************************************************)
(* The popup's analysis flow: getValidToken and authenticateAndAnalyze     *)
(***************************************************************************)

\* the tokens chrome.storage may hold when the popup opens: none, one that
\* expires at second 100, one that expires at second 200, and one whose
\* payload is no JSON
StoredTokens == { <<>>, <<"h", ".", "e", "y", "J", "l", "e", "H", "A", "i", "O", "j", "E", "w", "M", "H", "0", ".", "s">>, <<"h", ".", "e", "y", "J", "l", "e", "H", "A", "i", "O", "j", "I", "w", "M", "H", "0", ".", "s">>, <<"h", ".", "Y", "W", "J", "j", ".", "s">> }

\* the access_token of an authentication response: a new token, or none
\* when the response has no such member
AccessTokens == { <<"h", ".", "e", "y", "J", "l", "e", "H", "A", "i", "O", "i", "I", "x", "M", "D", "A", "i", "f", "Q", ".", "s">>, <<>> }

\* the times at which the popup opens
PopupTimes == {0, 69, 70}

InitPopup ==
    /\ storedToken \in StoredTokens
    /\ currentTime \in PopupTimes
    /\ token = <<>>
    /\ popup = [pc |-> "idle", token |-> <<>>, authResponse |-> <<>>, results |-> FALSE,
                loading |-> FALSE, analysisError |-> "null", analysisResult |-> "null"]
    /\ backendCalls = <<>>
    /\ RetryIdle
    /\ requestDomain = <<>>
    /\ pageDomain = <<>>
    /\ knownTrackers = KNOWN_TRACKERS
    /\ op = "none"
    /\ result = FALSE
    /\ url = <<>>
    /\ LoopIdle
    /\ calls = <<>>
    /\ tasks = <<>>
    /\ WorkerIdle
    /\ ExtensionIdle

\* the state of the popup when authenticateAndAnalyze ends with an error:
\* setAnalysisError(error), and setLoading(false) in the finally
Failed(error) ==
    [popup EXCEPT !.pc = "done", !.analysisError = error, !.loading = FALSE]

\* authenticateAndAnalyze is called: setLoading(true), setAnalysisError(null),
\* and getValidToken up to its await of the stored token
AuthenticateAndAnalyze ==
    /\ popup.pc = "idle"
    /\ popup' = [popup EXCEPT !.pc = "getStoredToken", !.loading = TRUE,
                              !.analysisError = "null"]
    /\ UNCHANGED <<storedToken, backendCalls>>
    /\ UNCHANGED <<classifierVars, url, loopVars, seqVars, taskVars, workerVars,
                   extensionVars, tokenVars, retryVars>>

\* getValidToken returning the stored token without asking isTokenValid
GetStoredToken_NoValidation ==
    /\ popup.pc = "getStoredToken"
    /\ popup' = IF storedToken # <<>>
                THEN [popup EXCEPT !.pc = "queryTab", !.token = storedToken]
                ELSE [popup EXCEPT !.pc = "authenticate"]
    /\ UNCHANGED <<storedToken, backendCalls>>
    /\ UNCHANGED <<classifierVars, url, loopVars, seqVars, taskVars, workerVars,
                   extensionVars, tokenVars, retryVars>>

\* getValidToken after ApiService.getStoredToken() resolved: the stored
\* token is returned when it is there and valid, else a new one is asked for
GetStoredToken ==
    /\ popup.pc = "getStoredToken"
    /\ popup' = IF storedToken # <<>> /\ isTokenValid(storedToken, currentTime)
                THEN [popup EXCEPT !.pc = "queryTab", !.token = storedToken]
                ELSE [popup EXCEPT !.pc = "authenticate"]
    /\ UNCHANGED <<storedToken, backendCalls>>
    /\ UNCHANGED <<classifierVars, url, loopVars, seqVars, taskVars, workerVars,
                   extensionVars, tokenVars, retryVars>>

\* ApiService.authenticate() settles: with a response, or with an error
\* (no network, or a status that is not ok), which getValidToken catches to
\* return null, upon which authenticateAndAnalyze gives up
Authenticate(ok, accessToken) ==
    /\ popup.pc = "authenticate"
    /\ backendCalls' = Append(backendCalls,
                          [call |-> "authenticate", ok |-> ok,
                           token |-> IF ok THEN accessToken ELSE <<>>])
    /\ popup' = IF ok
                THEN [popup EXCEPT !.pc = "storeToken", !.authResponse = accessToken]
                ELSE Failed("Authentication failed")
    /\ UNCHANGED storedToken
    /\ UNCHANGED <<classifierVars, url, loopVars, seqVars, taskVars, workerVars,
                   extensionVars, tokenVars, retryVars>>

\* ApiService.storeToken(authResponse.access_token) resolves and getValidToken
\* returns the access token; chrome.storage leaves out a value that is
\* undefined.  A token that is missing ends authenticateAndAnalyze.
StoreToken ==
    /\ popup.pc = "storeToken"
    /\ storedToken' = IF popup.authResponse # <<>> THEN popup.authResponse ELSE storedToken
    /\ backendCalls' = Append(backendCalls,
                          [call |-> "storeToken", ok |-> TRUE, token |-> popup.authResponse])
    /\ popup' = IF popup.authResponse # <<>>
                THEN [popup EXCEPT !.pc = "queryTab", !.token = popup.authResponse]
                ELSE Failed("Authentication failed")
    /\ UNCHANGED <<classifierVars, url, loopVars, seqVars, taskVars, workerVars,
                   extensionVars, tokenVars, retryVars>>

\* chrome.tabs.query resolves: with a tab that has an id, with a tab without
\* an id, or with no tab, upon which tab.id throws
QueryTab(outcome) ==
    /\ popup.pc = "queryTab"
    /\ popup' = CASE outcome = "tab" -> [popup EXCEPT !.pc = "collect"]
                  [] outcome = "no id" -> Failed("No active tab found")
                  [] OTHER -> Failed("Analysis failed: TypeError")
    /\ UNCHANGED <<storedToken, backendCalls>>
    /\ UNCHANGED <<classifierVars, url, loopVars, seqVars, taskVars, workerVars,
                   extensionVars, tokenVars, retryVars>>

\* chrome.tabs.sendMessage(tab.id, {type: "COLLECT_PRIVACY_DATA"}) settles:
\* with the page data, with undefined, or with an error
Collect(outcome) ==
    /\ popup.pc = "collect"
    /\ backendCalls' = Append(backendCalls,
                          [call |-> "collect", ok |-> outcome = "data", token |-> <<>>])
    /\ popup' = CASE outcome = "data" -> [popup EXCEPT !.pc = "analyze", !.results = TRUE]
                  [] outcome = "undefined" -> Failed("Failed to collect page data")
                  [] OTHER -> Failed("Analysis failed: no receiver")
    /\ UNCHANGED storedToken
    /\ UNCHANGED <<classifierVars, url, loopVars, seqVars, taskVars, workerVars,
                   extensionVars, tokenVars, retryVars>>

\* ApiService.analyzeComprehensivePrivacy(results, token) settles: it throws
\* without a token, else the request is sent with the token as bearer
Analyze(ok) ==
    /\ popup.pc = "analyze"
    /\ IF popup.token = <<>>
       THEN /\ popup' = Failed("Analysis failed: No authentication token available")
            /\ UNCHANGED backendCalls
       ELSE /\ backendCalls' = Append(backendCalls,
                                  [call |-> "analyze", ok |-> ok, token |-> popup.token])
            /\ popup' = IF ok
                        THEN [popup EXCEPT !.pc = "done", !.analysisResult = "result",
                                           !.loading = FALSE]
                        ELSE Failed("Analysis failed: API Error")
    /\ UNCHANGED storedToken
    /\ UNCHANGED <<classifierVars, url, loopVars, seqVars, taskVars, workerVars,
                   extensionVars, tokenVars, retryVars>>

NextPopup ==
    \/ AuthenticateAndAnalyze
    \/ GetStoredToken
    \/ \E ok \in BOOLEAN : \E accessToken \in AccessTokens : Authenticate(ok, accessToken)
    \/ StoreToken
    \/ \E outcome \in {"tab", "no id", "no tab"} : QueryTab(outcome)
    \/ \E outcome \in {"data", "undefined", "error"} : Collect(outcome)
    \/ \E ok \in BOOLEAN : Analyze(ok)

SpecPopup == InitPopup /\ [][NextPopup]_vars

(***************************************************************************)
(* EnhancedExtensionAuthenticator: makeRequestWithRetry and shouldRetry    *)
(***************************************************************************)

\* the largest options.maxRetries the authenticator is constructed with
MaxRetriesOption == 2

\* "this.maxRetries = options.maxRetries || 3", 0 standing for an option
\* that is missing or zero
DefaultMaxRetries == 3

retryableErrors == {500, 502, 503, 504, 429}

nonRetryableErrors == {401, 403}

\* the outcomes of one makeAuthenticatedRequest: fetch rejects, the response
\* is ok but its body is no JSON, the response is ok, or the response has an
\* error status and a body
RequestOutcomes ==
    { [kind |-> "error", status |-> 0, statusText |-> <<>>, body |-> m]
         : m \in { <<"F", "a", "i", "l", "e", "d", " ", "t", "o", " ", "f", "e", "t", "c", "h">>, <<"U", "n", "e", "x", "p", "e", "c", "t", "e", "d", " ", "e", "n", "d", " ", "o", "f", " ", "J", "S", "O", "N", " ", "i", "n", "p", "u", "t">> } }
    \cup { [kind |-> "response", status |-> 200, statusText |-> <<"O", "K">>, body |-> <<"{", "}">>] }
    \cup { [kind |-> "response", status |-> s, statusText |-> <<>>, body |-> b]
             : s \in retryableErrors \cup nonRetryableErrors \cup {400, 404},
               b \in { <<>>, <<"F", "a", "i", "l", "e", "d", " ", "t", "o", " ", "f", "e", "t", "c", "h", " ", "u", "s", "e", "r">> } }

\* the message of the error makeAuthenticatedRequest throws
ErrorMessage(outcome) ==
    IF outcome.kind = "error" THEN outcome.body
    ELSE <<"A", "P", "I", " ", "r", "e", "q", "u", "e", "s", "t", " ", "f", "a", "i", "l", "e", "d", ":", " ">> \o ToDigits(outcome.status) \o <<" ">>
            \o outcome.statusText \o <<" ", "-", " ">> \o outcome.body

\* error.message.match(/(\d{3})/): the first three digits in a row, or <<>>
MatchThreeDigits(s) ==
    LET At(k) == /\ s[k] \in Digits
                 /\ s[k + 1] \in Digits
                 /\ s[k + 2] \in Digits
        hits == { k \in 1..(Len(s) - 2) : At(k) }
    IN  IF hits = {} THEN <<>>
        ELSE LET k == CHOOSE h \in hits : \A g \in hits : h <= g
             IN  SubSeq(s, k, k + 2)

\* shouldRetry(error), given error.message
shouldRetry(message) ==
    IF Includes(message, <<"F", "a", "i", "l", "e", "d", " ", "t", "o", " ", "f", "e", "t", "c", "h">>) THEN TRUE
    ELSE LET statusMatch == MatchThreeDigits(message)
         IN  IF statusMatch # <<>>
             THEN LET status == DigitsValue(statusMatch)
                  IN  status \in retryableErrors /\ status \notin nonRetryableErrors
             ELSE FALSE

InitRetry ==
    /\ RetryIdle
    /\ requestDomain = <<>>
    /\ pageDomain = <<>>
    /\ knownTrackers = KNOWN_TRACKERS
    /\ op = "none"
    /\ result = FALSE
    /\ url = <<>>
    /\ LoopIdle
    /\ calls = <<>>
    /\ tasks = <<>>
    /\ WorkerIdle
    /\ ExtensionIdle
    /\ TokenIdle
    /\ PopupIdle

\* new EnhancedExtensionAuthenticator(id, url, options) and the call of
\* makeRequestWithRetry(endpoint, data, jwtToken), up to its first await
MakeRequestWithRetry(optionMaxRetries) ==
    /\ retry.pc = "idle"
    /\ retry' = [retry EXCEPT !.pc = "request",
                              !.maxRetries = IF optionMaxRetries = 0 THEN DefaultMaxRetries
                                             ELSE optionMaxRetries,
                              !.retries = 0,
                              !.attempts = 1]
    /\ UNCHANGED <<classifierVars, url, loopVars, seqVars, taskVars, workerVars,
                   extensionVars, tokenVars, popupVars>>

\* makeAuthenticatedRequest settles: the response is returned, or the error
\* is caught and either the delay is awaited or the error is thrown again
RequestSettles(outcome) ==
    /\ retry.pc = "request"
    /\ retry' = IF outcome.kind = "response" /\ outcome.status = 200
                THEN [retry EXCEPT !.pc = "returned", !.last = outcome, !.outcome = outcome]
                ELSE IF retry.retries < retry.maxRetries /\ shouldRetry(ErrorMessage(outcome))
                THEN [retry EXCEPT !.pc = "delay", !.last = outcome]
                ELSE [retry EXCEPT !.pc = "thrown", !.last = outcome, !.outcome = outcome]
    /\ UNCHANGED <<classifierVars, url, loopVars, seqVars, taskVars, workerVars,
                   extensionVars, tokenVars, popupVars>>

\* the timer of retryDelay fires: makeRequestWithRetry(..., retries + 1)
DelayElapsed ==
    /\ retry.pc = "delay"
    /\ retry' = [retry EXCEPT !.pc = "request", !.retries = @ + 1, !.attempts = @ + 1]
    /\ UNCHANGED <<classifierVars, url, loopVars, seqVars, taskVars, workerVars,
                   extensionVars, tokenVars, popupVars>>

NextRetry ==
    \/ \E optionMaxRetries \in 0..MaxRetriesOption : MakeRequestWithRetry(optionMaxRetries)
    \/ \E outcome \in RequestOutcomes : RequestSettles(outcome)
    \/ DelayElapsed

SpecRetry == InitRetry /\ [][NextRetry]_vars

(***************************************************************************)
(* Vocabulary of the properties, stated on the characters of the domains   *)
(***************************************************************************)

\* d without one leading "www."
WwwStripped(d) ==
    IF Len(d) >= 4 /\ d[1] = "w" /\ d[2] = "w" /\ d[3] = "w" /\ d[4] = "."
    THEN [i \in 1..(Len(d) - 4) |-> d[i + 4]]
    ELSE d

\* a is b preceded by some labels: a = x . b for some string x
IsSubdomainOf(a, b) ==
    \E k \in 1..Len(a) :
        /\ a[k] = "."
        /\ Len(a) - k = Len(b)
        /\ \A i \in 1..Len(b) : a[k + i] = b[i]

\* the positions of the dots of d
DotsOf(d) == { i \in 1..Len(d) : d[i] = "." }

\* the last two dot-separated labels of d, all of d when it has fewer
LastTwoLabels(d) ==
    IF Cardinality(DotsOf(d)) <= 1 THEN d
    ELSE LET cut == CHOOSE i \in DotsOf(d) :
                       Cardinality({ j \in DotsOf(d) : j > i }) = 1
         IN  [i \in 1..(Len(d) - cut) |-> d[cut + i]]

\* the keyword set of a domain
KeywordSet(d) ==
    LET keywords == extractDomainKeywords(WwwStripped(d))
    IN  { keywords[i] : i \in 1..Len(keywords) }

\* b occurs in a as a substring
Contains(a, b) ==
    \E k \in 0..(Len(a) - Len(b)) : \A i \in 1..Len(b) : a[k + i] = b[i]

\* a keyword of the page and a keyword of the request, both of length >= 4,
\* that are equal or of which one contains the other
QualifyingKeywordPair(r, p) ==
    \E pk \in KeywordSet(p) : \E rk \in KeywordSet(r) :
        /\ Len(pk) >= 4
        /\ Len(rk) >= 4
        /\ (pk = rk \/ Contains(pk, rk) \/ Contains(rk, pk))

ThirdPartyOps == {"isThirdPartyDomain", "isThirdPartyDomainClient"}

(***************************************************************************)
(* Properties                                                              *)
(***************************************************************************)

\* C1: comparing a domain with itself is first-party: isThirdPartyDomain(d, d)
\* is false for every domain d, the empty string and the domains starting
\* with "www." included, in the keyword-heuristic module and in the client's
C1_SelfComparisonIsFirstParty ==
    (op \in ThirdPartyOps /\ requestDomain = pageDomain) => result = FALSE

C1_Witness ==
    /\ op = "isThirdPartyDomain"
    /\ requestDomain = <<"w", "w", "w", ".", "e", "x", "a", "m", "p", "l", "e", ".", "c", "o", "m">>
    /\ pageDomain = requestDomain
    /\ result = FALSE

\* C2: www-stripping symmetry: isThirdPartyDomain("www." + d, d) and
\* isThirdPartyDomain(d, "www." + d) are false for every domain d, also when
\* d itself starts with "www."
C2_WwwPrefixIsFirstParty ==
    ( /\ op = "isThirdPartyDomain"
      /\ \/ requestDomain = <<"w", "w", "w", ".">> \o pageDomain
         \/ pageDomain = <<"w", "w", "w", ".">> \o requestDomain )
    => result = FALSE

C2_Witness ==
    /\ op = "isThirdPartyDomain"
    /\ requestDomain = <<"w", "w", "w", ".", "a", "b", "c">>
    /\ pageDomain = <<"w", "w", "w", ".", "w", "w", "w", ".", "a", "b", "c">>
    /\ result = FALSE

\* C3: bidirectional subdomain rule: when, after one leading "www." is
\* stripped, the request domain is a subdomain of the page domain or the page
\* domain is a subdomain of the request domain, isThirdPartyDomain is false
C3_SubdomainEitherWayIsFirstParty ==
    ( /\ op = "isThirdPartyDomain"
      /\ \/ IsSubdomainOf(WwwStripped(requestDomain), WwwStripped(pageDomain))
         \/ IsSubdomainOf(WwwStripped(pageDomain), WwwStripped(requestDomain)) )
    => result = FALSE

C3_Witness ==
    /\ op = "isThirdPartyDomain"
    /\ requestDomain = <<"e", "x", "a", "m", "p", "l", "e", ".", "c", "o", "m">>
    /\ pageDomain = <<"s", "u", "b", ".", "e", "x", "a", "m", "p", "l", "e", ".", "c", "o", "m">>
    /\ result = FALSE

\* C4: base-domain rule: when the last two labels of the www-stripped request
\* domain equal the last two labels of the www-stripped page domain,
\* isThirdPartyDomain is false; no public-suffix list is consulted
\* (foo.co.uk and bar.co.uk are first-party to each other)
C4_SameLastTwoLabelsIsFirstParty ==
    ( /\ op = "isThirdPartyDomain"
      /\ LastTwoLabels(WwwStripped(requestDomain))
            = LastTwoLabels(WwwStripped(pageDomain)) )
    => result = FALSE

C4_Witness ==
    /\ op = "isThirdPartyDomain"
    /\ requestDomain = <<"f", "o", "o", ".", "c", "o", ".", "u", "k">>
    /\ pageDomain = <<"b", "a", "r", ".", "c", "o", ".", "u", "k">>
    /\ result = FALSE

\* C5: keyword-overlap rule: when the keyword sets of the page and of the
\* request domain hold a pair of keywords, both of length >= 4, that are
\* equal or of which one contains the other, isThirdPartyDomain is false
\* (githubassets.com against github.com)
C5_KeywordOverlapIsFirstParty ==
    ( /\ op = "isThirdPartyDomain"
      /\ QualifyingKeywordPair(requestDomain, pageDomain) )
    => result = FALSE

C5_Witness ==
    /\ op = "isThirdPartyDomain"
    /\ requestDomain = <<"g", "i", "t", "h", "u", "b", "a", "s", "s", "e", "t", "s", ".", "c", "o", "m">>
    /\ pageDomain = <<"g", "i", "t", "h", "u", "b", ".", "c", "o", "m">>
    /\ QualifyingKeywordPair(requestDomain, pageDomain)
    /\ result = FALSE

\* the reference predicate of third-party: none of the positive checks matches
ReferenceThirdParty(r, p) ==
    /\ WwwStripped(r) # WwwStripped(p)
    /\ ~IsSubdomainOf(WwwStripped(r), WwwStripped(p))
    /\ ~IsSubdomainOf(WwwStripped(p), WwwStripped(r))
    /\ LastTwoLabels(WwwStripped(r)) # LastTwoLabels(WwwStripped(p))
    /\ ~QualifyingKeywordPair(r, p)

\* C6: isThirdPartyDomain(r, p) is true exactly when none of the positive
\* checks matches: the www-stripped domains differ, neither is a subdomain of
\* the other, their last two labels differ and no qualifying keyword pair
\* exists; the result agrees with this reference predicate on every pair
C6_ThirdPartyIffNoCheckMatches ==
    op = "isThirdPartyDomain"
    => result = ReferenceThirdParty(requestDomain, pageDomain)

C6_Witness ==
    /\ op = "isThirdPartyDomain"
    /\ requestDomain = <<"d", "o", "u", "b", "l", "e", "c", "l", "i", "c", "k", ".", "n", "e", "t">>
    /\ pageDomain = <<"e", "x", "a", "m", "p", "l", "e", ".", "c", "o", "m">>
    /\ ReferenceThirdParty(requestDomain, pageDomain)
    /\ result = TRUE

\* a keyword of the one domain and a keyword of the other that are equal or
\* of which one contains the other, one of the two shorter than 4 characters
ShortKeywordShared(r, p) ==
    \E pk \in KeywordSet(p) : \E rk \in KeywordSet(r) :
        /\ (Len(pk) < 4 \/ Len(rk) < 4)
        /\ (pk = rk \/ Contains(pk, rk) \/ Contains(rk, pk))

\* domains that fail the equality, subdomain and base-domain checks and whose
\* keywords are related only through tokens of length <= 3 are third-party
C7_ShortTokensThirdParty ==
    ( /\ op = "isThirdPartyDomain"
      /\ WwwStripped(requestDomain) # WwwStripped(pageDomain)
      /\ ~IsSubdomainOf(WwwStripped(requestDomain), WwwStripped(pageDomain))
      /\ ~IsSubdomainOf(WwwStripped(pageDomain), WwwStripped(requestDomain))
      /\ LastTwoLabels(WwwStripped(requestDomain))
            # LastTwoLabels(WwwStripped(pageDomain))
      /\ \A pk \in KeywordSet(pageDomain) : \A rk \in KeywordSet(requestDomain) :
            (pk = rk \/ Contains(pk, rk) \/ Contains(rk, pk))
            => (Len(pk) <= 3 \/ Len(rk) <= 3) )
    => result = TRUE

\* api.com against apigateway.io is third-party
C7_ApiExampleIsThirdParty ==
    ( /\ op = "isThirdPartyDomain"
      /\ requestDomain = <<"a", "p", "i", ".", "c", "o", "m">>
      /\ pageDomain = <<"a", "p", "i", "g", "a", "t", "e", "w", "a", "y", ".", "i", "o">> )
    => result = TRUE

\* C7: length thresholds: a token shorter than 4 characters never makes two
\* domains first-party through the keyword step, also when the identical
\* token occurs in both domains; domains that fail the equality, subdomain
\* and base-domain checks and share only tokens of length <= 3 are
\* third-party, and isThirdPartyDomain("api.com", "apigateway.io") is true
C7_ShortTokensNeverMatch ==
    C7_ShortTokensThirdParty /\ C7_ApiExampleIsThirdParty

C7_Witness ==
    /\ op = "isThirdPartyDomain"
    /\ requestDomain = <<"a", "b", "c", ".", "c", "o", "m">>
    /\ pageDomain = <<"a", "b", "c", ".", "i", "o">>
    /\ ShortKeywordShared(requestDomain, pageDomain)
    /\ result = TRUE

\* C8: an empty domain string classifies as third-party: for every domain p,
\* isThirdPartyDomain("", p) and isThirdPartyDomain(p, "") are true, in the
\* keyword-heuristic module and in the client's.  The pair ("", "") is the
\* self-comparison of C1 and is left out: the statement is the claim on the
\* domains p other than ""
C8_EmptyDomainIsThirdParty ==
    ( /\ op \in ThirdPartyOps
      /\ (requestDomain = <<>> \/ pageDomain = <<>>)
      /\ requestDomain # pageDomain )
    => result = TRUE

\* C9: isThirdPartyDomain normalizes case itself: its result is the result
\* for the lower-case spellings of its arguments
C9_CaseIsNormalized ==
    op = "isThirdPartyDomain"
    => result = isThirdPartyDomain(toLowerCase(requestDomain),
                                   toLowerCase(pageDomain))

\* a and b are the same string up to the case of their letters
SameIgnoringCase(a, b) ==
    /\ Len(a) = Len(b)
    /\ \A i \in 1..Len(a) :
          \/ a[i] = b[i]
          \/ \E k \in 1..26 : {a[i], b[i]} = {UpperCase[k], LowerCase[k]}

\* C10: isKnownTracker(d) is true if and only if d is, up to case, verbatim an
\* element of the fixed tracker set: no subdomain, www-prefix or fuzzy match,
\* and the empty string is no tracker
C10_TrackerIffExactMatchIgnoringCase ==
    op = "isKnownTracker"
    => /\ result = (\E t \in KNOWN_TRACKERS : SameIgnoringCase(requestDomain, t))
       /\ ( requestDomain \in
              { <<>>,
                <<"s", "u", "b", ".", "g", "o", "o", "g", "l", "e", "-", "a", "n", "a", "l", "y", "t", "i", "c", "s", ".", "c", "o", "m">>,
                <<"w", "w", "w", ".", "g", "o", "o", "g", "l", "e", "-", "a", "n", "a", "l", "y", "t", "i", "c", "s", ".", "c", "o", "m">>,
                <<"s", "u", "b", ".", "d", "o", "u", "b", "l", "e", "c", "l", "i", "c", "k", ".", "n", "e", "t">> }
            => result = FALSE )

C10_Witness ==
    /\ op = "isKnownTracker"
    /\ requestDomain = <<"G", "O", "O", "G", "L", "E", "-", "A", "N", "A", "L", "Y", "T", "I", "C", "S", ".", "C", "O", "M">>
    /\ result = TRUE

\* no letter of s is upper-case
IsLowerCase(s) == \A i \in 1..Len(s) : \A k \in 1..26 : s[i] # UpperCase[k]

\* C11: getDomainFromUrl returns the lower-cased hostname of a parseable URL
\* ("HTTPS://Example.COM/path" gives "example.com") and the empty string,
\* without raising, for every input on which URL parsing fails
\* ("not a url" gives "")
C11_LowerCaseHostnameOrEmpty ==
    op = "getDomainFromUrl"
    => /\ result # Thrown
       /\ ParseUrl(url).ok
            => (IsLowerCase(result) /\ SameIgnoringCase(result, ParseUrl(url).hostname))
       /\ ~ParseUrl(url).ok => result = <<>>
       /\ url = <<"H", "T", "T", "P", "S", ":", "/", "/", "E", "x", "a", "m", "p", "l", "e", ".", "C", "O", "M", "/", "p", "a", "t", "h">>
            => result = <<"e", "x", "a", "m", "p", "l", "e", ".", "c", "o", "m">>
       /\ url = <<"n", "o", "t", " ", "a", " ", "u", "r", "l">> => result = <<>>

C11_Witness ==
    /\ op = "getDomainFromUrl"
    /\ url = <<"f", "o", "o", ":", "/", "/", "E", "x", "a", "m", "p", "l", "e", ".", "C", "O", "M", ":", "8", "0", "/", "x">>
    /\ ParseUrl(url).ok
    /\ ParseUrl(url).hostname = <<"E", "x", "a", "m", "p", "l", "e", ".", "C", "O", "M">>
    /\ result = <<"e", "x", "a", "m", "p", "l", "e", ".", "c", "o", "m">>

\* C12: isThirdPartyDomain and isKnownTracker are total: every call, on
\* empty and malformed strings and on strings of separators too, terminates
\* and returns a boolean without raising; the keyword-extraction loop that
\* adds to the keyword Set while it iterates over it ends
C12_EveryCallReturnsABoolean ==
    <>(pc = "done" /\ result \in BOOLEAN)

\* a call has returned after the inner loop ran over a Set it added to
C12_Witness ==
    /\ pc = "done"
    /\ op = "isThirdPartyDomain"
    /\ requestDomain = <<"g", "i", "t", "h", "u", "b", "a", "s", "s", "e", "t", "s", ".", "c", "o", "m">>
    /\ pageDomain = <<"-", "_", ".", "-">>
    /\ loopKeywords = <<<<"g", "i", "t", "h", "u", "b", "a", "s", "s", "e", "t", "s">>>>
    /\ kwIter = 2
    /\ result = TRUE

\* the call followed statement by statement returns what isThirdPartyDomain
\* and isKnownTracker return, and a keyword Set holds no more than the parts
SteppedAgrees ==
    /\ (pc = "done" /\ op = "isThirdPartyDomain")
          => result = isThirdPartyDomain(requestDomain, pageDomain)
    /\ Len(loopKeywords) <= Len(loopParts)
    /\ Len(loopKeywords) < MaxKeywords

\* C13: determinism: in any sequence of calls of getDomainFromUrl,
\* isThirdPartyDomain and isKnownTracker, two calls of the same function with
\* identical arguments return identical results, whatever calls were made in
\* between
C13_SameCallSameResult ==
    \A i \in 1..Len(calls) : \A j \in 1..Len(calls) :
        ( /\ calls[i].fn = calls[j].fn
          /\ calls[i].a = calls[j].a
          /\ calls[i].b = calls[j].b )
        => calls[i].res = calls[j].res

\* isKnownTracker of a domain, a call of it on another spelling, and
\* isKnownTracker of the first domain again
C13_Witness ==
    /\ Len(calls) = 3
    /\ calls[1].fn = "isKnownTracker"
    /\ calls[1].a = <<"e", "x", "a", "m", "p", "l", "e", ".", "c", "o", "m">>
    /\ calls[2].fn = "isKnownTracker"
    /\ calls[2].a = <<"E", "X", "A", "M", "P", "L", "E", ".", "C", "O", "M">>
    /\ calls[3].fn = "isKnownTracker"
    /\ calls[3].a = calls[1].a
    /\ calls[3].res = calls[1].res

\* C14: the tracker set is read-only after load: after any sequence of calls
\* of getDomainFromUrl, isThirdPartyDomain, extractDomainKeywords and
\* isKnownTracker its contents equal its initial contents
C14_TrackerSetUnchanged == knownTrackers = KNOWN_TRACKERS

C14_Witness ==
    /\ Len(calls) = MaxCalls
    /\ \E i \in 1..Len(calls) : calls[i].fn = "isKnownTracker"
    /\ \E i \in 1..Len(calls) : calls[i].fn = "extractDomainKeywords"
    /\ \E i \in 1..Len(calls) : calls[i].fn = "isThirdPartyDomain"
    /\ knownTrackers = KNOWN_TRACKERS

\* the pair (isThirdParty, isKnownTracker) of domain d against page p when
\* the domains are evaluated one after another on the loaded tracker set
SequentialPair(d, p) ==
    <<isThirdPartyDomain(d, p), \E t \in KNOWN_TRACKERS : SameIgnoringCase(d, t)>>

\* C15: classifying the observed domains of a page with concurrent,
\* arbitrarily interleaved calls yields for every domain the pair
\* (isThirdParty, isKnownTracker) of the evaluation one after another; no
\* call's result depends on another call
C15_InterleavingYieldsSequentialPairs ==
    \A i \in DOMAIN tasks :
        /\ tasks[i].pc \in {"classified", "done"}
              => tasks[i].isThirdParty = SequentialPair(tasks[i].domain, pageDomain)[1]
        /\ tasks[i].pc = "done"
              => tasks[i].isKnownTracker = SequentialPair(tasks[i].domain, pageDomain)[2]

\* the tasks of two spellings of one domain are both done
C15_Witness ==
    /\ DOMAIN tasks = 1..MaxTasks
    /\ \A i \in DOMAIN tasks : tasks[i].pc = "done"
    /\ tasks[1].domain = <<"E", "X", "A", "M", "P", "L", "E", ".", "C", "O", "M">>
    /\ tasks[2].domain = <<"e", "x", "a", "m", "p", "l", "e", ".", "c", "o", "m">>
    /\ pageDomain = <<"e", "x", "a", "m", "p", "l", "e", ".", "c", "o", "m">>
    /\ <<tasks[1].isThirdParty, tasks[1].isKnownTracker>> = <<TRUE, FALSE>>
    /\ <<tasks[2].isThirdParty, tasks[2].isKnownTracker>> = <<FALSE, FALSE>>

\* C16: the keyword-heuristic isThirdPartyDomain is symmetric in its
\* arguments: isThirdPartyDomain(a, b) equals isThirdPartyDomain(b, a)
C16_Symmetric ==
    op = "isThirdPartyDomain"
    => result = isThirdPartyDomain(pageDomain, requestDomain)

C16_Witness ==
    /\ op = "isThirdPartyDomain"
    /\ requestDomain = <<"c", "o", "m">>
    /\ pageDomain = <<"a", "b", "c", ".", "c", "o", "m">>
    /\ result = FALSE
    /\ isThirdPartyDomain(pageDomain, requestDomain) = FALSE

\* the labels of d, split on "."
LabelsOf(d) == Split(d, {"."})

\* the number of labels at the end of d that are listed TLDs (or the empty
\* label after a final dot), the first label not counted: the trailing TLD
\* label(s) of the hostname
TrailingTldLabels(d) ==
    LET ls == LabelsOf(d)
    IN  CHOOSE n \in 0..(Len(ls) - 1) :
           /\ \A i \in (Len(ls) - n + 1)..Len(ls) : ls[i] \in TLDS \cup {<<>>}
           /\ (n = Len(ls) - 1 \/ ls[Len(ls) - n] \notin TLDS \cup {<<>>})

\* the tokens (split on ".", "-", "_") of the labels of d before its trailing
\* TLD label(s)
TokensBeforeTld(d) ==
    LET ls == LabelsOf(d)
        n == TrailingTldLabels(d)
    IN  UNION { { Split(ls[i], {"-", "_"})[k] : k \in 1..Len(Split(ls[i], {"-", "_"})) } :
                  i \in 1..(Len(ls) - n) }

\* the value returned by extractDomainKeywords as a set
ResultSet == { result[i] : i \in 1..Len(result) }

\* C17: extractDomainKeywords strips only the known-TLD suffix at the end of
\* the hostname: every token before the trailing TLD label(s) that has length
\* >= 3 and is not in the stoplist is in the returned keyword set, also when
\* an earlier label equals a listed TLD ("a.it.brandname.com" yields
\* "brandname")
C17_OnlyTrailingTldStripped ==
    op = "extractDomainKeywords"
    => \A tok \in TokensBeforeTld(WwwStripped(requestDomain)) :
          (Len(tok) >= 3 /\ tok \notin genericWords) => tok \in ResultSet

\* C18: every keyword returned by extractDomainKeywords has length >= 3, is
\* no word of the generic stoplist and contains none of the separators
\* ".", "-", "_"
C18_KeywordsAreFilteredTokens ==
    op = "extractDomainKeywords"
    => \A kw \in ResultSet :
          /\ Len(kw) >= 3
          /\ kw \notin genericWords
          /\ \A i \in 1..Len(kw) : kw[i] \notin {".", "-", "_"}

C18_Witness ==
    /\ op = "extractDomainKeywords"
    /\ requestDomain = <<"a", "b", "c", "-", "c", "d", "n", ".", "n", "e", "t">>
    /\ result = <<<<"a", "b", "c">>>>

\* C19: the client's isThirdPartyDomain returns false only when the
\* www-stripped request domain equals the page domain or is a subdomain of it
\* at a label boundary; "notexample.com" against "example.com", and any
\* request domain against an empty page domain, is third-party
C19_ClientFirstPartyOnlyAtLabelBoundary ==
    (op = "isThirdPartyDomainClient" /\ result = FALSE)
    => \/ WwwStripped(requestDomain) = WwwStripped(pageDomain)
       \/ /\ pageDomain # <<>>
          /\ IsSubdomainOf(WwwStripped(requestDomain), WwwStripped(pageDomain))

\* the last n elements of sequence q, all of q when it has fewer
LastN(q, n) ==
    IF Len(q) <= n THEN q ELSE [i \in 1..n |-> q[Len(q) - n + i]]

\* C20: in the capped background worker, after any sequence of
\* onBeforeRequest events each tab's stored request list holds at most 500
\* entries, and these are exactly the most recently recorded requests of that
\* tab in arrival order
C20_StoredAreTheLast500 ==
    \A tabId \in Tabs :
        IF tabId \in DOMAIN tabNetworkRequests
        THEN /\ Len(tabNetworkRequests[tabId]) <= 500
             /\ tabNetworkRequests[tabId] = LastN(recorded[tabId], 500)
        ELSE recorded[tabId] = <<>>

C20_Witness ==
    /\ Len(recorded[1]) = 502
    /\ Len(recorded[2]) = 1
    /\ skipped = 1
    /\ Len(tabNetworkRequests[1]) = 500
    /\ tabNetworkRequests[1][1] = recorded[1][3]
    /\ tabNetworkRequests[1][500] = recorded[1][502]

\* the background worker accepted the message of the step and answered it
BackgroundAnswers(type) ==
    /\ msg' # msg
    /\ msg'.handler = "background"
    /\ msg'.senderId = RuntimeId
    /\ msg'.type = type
    /\ Len(msg'.responses) = 1

\* the requests recorded for tab t since its entry was last deleted
RecordedSinceCleared(t) == SubSeq(recorded[t], cleared[t] + 1, Len(recorded[t]))

\* C21: after a tab is closed (tabs.onRemoved) or a CLEAR_TAB_DATA message
\* for it is handled, a GET_NETWORK_REQUESTS for that tab returns an empty
\* list until a new request for the tab is recorded: every answer lists
\* exactly the requests recorded for the tab since its entry was last
\* deleted; and a step that records nothing leaves the requests stored for
\* every tab whose entry it does not delete as they are.  The tab of a
\* message is sender.tab?.id || message.tabId.
C21_EmptyAfterRemovalUntilRecorded ==
    [][ /\ ( BackgroundAnswers("GET_NETWORK_REQUESTS") /\ msg'.tabId \in Tabs )
           => msg'.responses[1].value = RecordedSinceCleared(msg'.tabId)
        /\ \A u \in Tabs :
              ( recorded' = recorded /\ cleared'[u] = cleared[u] )
              => MapGetOrEmpty(tabNetworkRequests', u) = MapGetOrEmpty(tabNetworkRequests, u)
      ]_vars

\* tab 1 was closed after a request of it had been recorded, tab 2 keeps its
\* request, and the answer for tab 1 is the empty list
C21_Witness ==
    /\ msg.handler = "background"
    /\ msg.type = "GET_NETWORK_REQUESTS"
    /\ msg.senderId = RuntimeId
    /\ msg.tabId = 1
    /\ Len(recorded[1]) = 1
    /\ cleared[1] = 1
    /\ 1 \notin DOMAIN tabNetworkRequests
    /\ Len(msg.responses) = 1
    /\ msg.responses[1].value = <<>>
    /\ Len(recorded[2]) = 1
    /\ MapGetOrEmpty(tabNetworkRequests, 2) = recorded[2]

\* s is the end of r: the last Len(s) elements of r, in the order of r
IsSuffixOf(s, r) ==
    /\ Len(s) <= Len(r)
    /\ s = SubSeq(r, Len(r) - Len(s) + 1, Len(r))

\* C22: per-tab isolation of the request store: every entry stored under
\* tab key t has tabId = t, and a GET_NETWORK_REQUESTS answered for tab t
\* returns only requests observed for tab t, in the order they were observed
C22_PerTabIsolation ==
    [][ /\ \A t \in DOMAIN tabNetworkRequests' :
              \A i \in 1..Len(tabNetworkRequests'[t]) : tabNetworkRequests'[t][i].tabId = t
        /\ ( BackgroundAnswers("GET_NETWORK_REQUESTS") /\ msg'.tabId \in Tabs )
           => /\ \A i \in 1..Len(msg'.responses[1].value) :
                    msg'.responses[1].value[i].tabId = msg'.tabId
              /\ IsSuffixOf(msg'.responses[1].value, recorded[msg'.tabId])
      ]_vars

\* both tabs hold a request, and the answer for tab 1 is tab 1's request
C22_Witness ==
    /\ msg.handler = "background"
    /\ msg.type = "GET_NETWORK_REQUESTS"
    /\ msg.senderId = RuntimeId
    /\ msg.tabId = 1
    /\ Len(msg.responses) = 1
    /\ Len(msg.responses[1].value) = 1
    /\ msg.responses[1].value = recorded[1]
    /\ 2 \in DOMAIN tabNetworkRequests
    /\ tabNetworkRequests[2] = recorded[2]
    /\ Len(recorded[2]) = 1
    /\ recorded[2][1].url # recorded[1][1].url

\* u is a URL of the browser or of an extension
IsBrowserUrl(u) ==
    \/ StartsWith(u, <<"c", "h", "r", "o", "m", "e", ":", "/", "/">>)
    \/ StartsWith(u, <<"c", "h", "r", "o", "m", "e", "-", "e", "x", "t", "e", "n", "s", "i", "o", "n", ":", "/", "/">>)

\* u contains one of the tracking keywords
HasTrackingKeyword(u) == \E keyword \in trackingKeywords : Includes(u, keyword)

\* u contains one of the extensions of static resources
HasStaticExtension(u) == \E ext \in staticExtensions : Includes(u, ext)

\* C23 as stated: every observed request whose URL is not a chrome:// or
\* chrome-extension:// URL and contains one of the tracking keywords is
\* judged privacy-relevant and recorded, whatever else the URL contains: no
\* listener leaves such a request out
C23_KeywordRequestsAlwaysRecorded ==
    \A d \in dropped : ~( ~IsBrowserUrl(d.url) /\ HasTrackingKeyword(d.url) )

\* C23 as amended: every observed request whose URL, in lower case, is not a
\* chrome:// or chrome-extension:// URL, contains none of the extensions of
\* static resources (.jpg ... .ogg) and contains one of the tracking keywords
\* is judged privacy-relevant and recorded; the test of the static extensions
\* comes first and wins over the keywords
C23_KeywordRequestsRecordedUnlessStatic ==
    \A d \in dropped :
        ~( /\ ~IsBrowserUrl(toLowerCase(d.url))
           /\ ~HasStaticExtension(toLowerCase(d.url))
           /\ HasTrackingKeyword(toLowerCase(d.url)) )

\* an image request with a tracking keyword and no static extension is
\* stored by the background worker, and the same host's .gif is left out
C23_Witness ==
    /\ \E t \in DOMAIN tabNetworkRequests :
          \E i \in 1..Len(tabNetworkRequests[t]) :
             /\ tabNetworkRequests[t][i].type = "image"
             /\ HasTrackingKeyword(tabNetworkRequests[t][i].url)
    /\ \E d \in dropped :
          /\ d.listener = "background"
          /\ HasTrackingKeyword(d.url)
          /\ HasStaticExtension(d.url)

\* C24: a runtime message whose sender.id differs from the extension's own
\* id is rejected by the message handlers of the background worker and of
\* the content script: no response is sent for it, none is left to a
\* callback, and the per-tab requests, the requests the content script
\* recorded and its flags stay as they are, for every message type
C24_ForeignSenderRejected ==
    [][ ( msg' # msg /\ msg'.senderId # RuntimeId )
        => /\ msg'.responses = <<>>
           /\ ~msg'.pending
           /\ msg'.returned = "undefined"
           /\ tabNetworkRequests' = tabNetworkRequests
           /\ networkRequests' = networkRequests
           /\ analyticsFlags' = analyticsFlags
      ]_vars

\* another extension asked the background worker to clear tab data while
\* both tabs hold requests: nothing was answered and both entries are there
C24_Witness ==
    /\ msg.handler = "background"
    /\ msg.senderId = ForeignId
    /\ msg.type = "CLEAR_TAB_DATA"
    /\ msg.responses = <<>>
    /\ ~msg.pending
    /\ DOMAIN tabNetworkRequests = Tabs
    /\ \A t \in Tabs : tabNetworkRequests[t] = recorded[t] /\ Len(recorded[t]) = 1

\* C25: for every message accepted from the extension itself the handler
\* invokes sendResponse exactly once, before it returns or from the
\* asynchronous callback: once nothing is left to a callback, exactly one
\* response has been sent, and never more than one at any time
C25_ExactlyOneResponse ==
    ( msg.handler # "none" /\ msg.senderId = RuntimeId )
    => /\ Len(msg.responses) <= 1
       /\ msg.pending => Len(msg.responses) = 0
       /\ ~msg.pending => Len(msg.responses) = 1

\* the host a request for u goes to: the host of an absolute URL, and the
\* page's own host for a relative URL, which the browser resolves against
\* the page
RequestHost(u) == IF ParseUrl(u).ok THEN toLowerCase(ParseUrl(u).hostname) ELSE PageHostname

\* u contains one of the high-priority keywords
HasHighPriorityKeyword(u) ==
    \E keyword \in highPriorityKeywords : Includes(toLowerCase(u), keyword)

MiddlePart(tok) ==
    LET first == CHOOSE i \in DotsOf(tok) : \A j \in DotsOf(tok) : i <= j
        second == CHOOSE i \in DotsOf(tok) : \A j \in DotsOf(tok) : j <= i
    IN  SubSeq(tok, first + 1, second - 1)

\* the token has exactly three dot-separated parts
HasThreeParts(tok) == Cardinality(DotsOf(tok)) = 2

\* the binary string the middle part of the token decodes to
DecodedMiddle(tok) == atob(ReplaceAll(ReplaceAll(MiddlePart(tok), "-", "+"), "_", "/"))

\* the middle part of the token decodes to JSON
DecodesToJson(tok) ==
    /\ HasThreeParts(tok)
    /\ DecodedMiddle(tok).ok
    /\ JsonParse(DecodedMiddle(tok).value).ok

\* the payload of a token whose middle part decodes to JSON
PayloadOf(tok) == JsonParse(DecodedMiddle(tok).value).value

\* the payload has no exp: it is no object, or an object without that member
MissingExp(tok) ==
    PayloadOf(tok).t # "object"
    \/ \A k \in 1..Len(PayloadOf(tok).v) : PayloadOf(tok).v[k][1] # <<"e", "x", "p">>

\* C26: isTokenValid(token) returns true only if the token has exactly three
\* dot-separated parts, its middle part decodes to JSON and the current time
\* in seconds is strictly less than payload.exp - 30; for a null or empty
\* token, a wrong number of parts, an undecodable payload or a missing exp
\* it returns false, and it never raises
C26_TokenValidOnlyBeforeExpiry ==
    op = "isTokenValid" =>
       /\ result \in BOOLEAN
       /\ result = TRUE =>
             /\ DecodesToJson(token)
             /\ ~MissingExp(token)
             /\ ~ToNumber(GetExp(PayloadOf(token)).value).nan
             /\ currentTime < ToNumber(GetExp(PayloadOf(token)).value).n - 30
       /\ ( \/ token = <<>>
            \/ ~HasThreeParts(token)
            \/ ~DecodesToJson(token)
            \/ MissingExp(token) ) => result = FALSE

\* the token with exp 100 is valid at second 69, the last second before
\* exp - 30
C26_Witness ==
    /\ op = "isTokenValid"
    /\ token = <<"h", ".", "e", "y", "J", "l", "e", "H", "A", "i", "O", "j", "E", "w", "M", "H", "0", ".", "s">>
    /\ PayloadOf(token).v = << <<<<"e", "x", "p">>, [t |-> "number", v |-> 100]>> >>
    /\ currentTime = 69
    /\ result = TRUE


\* the calls of the given kind in the log of the popup's calls
CallsOf(kind) == { i \in 1..Len(backendCalls) : backendCalls[i].call = kind }

\* C27: an analyze request carries a token that was obtained: the stored
\* token, which isTokenValid accepted and for which authenticate was never
\* called, or the access token of an earlier successful authentication that
\* was stored before the request; and once authentication has failed no page
\* data is collected, no analyze request is sent, and the flow ends with the
\* error "Authentication failed"
C27_AnalyzeOnlyWithObtainedToken ==
    /\ \A k \in CallsOf("analyze") :
          /\ backendCalls[k].token # <<>>
          /\ \/ /\ CallsOf("authenticate") = {}
                /\ backendCalls[k].token = storedToken
                /\ isTokenValid(storedToken, currentTime)
             \/ \E i \in CallsOf("authenticate") : \E j \in CallsOf("storeToken") :
                   /\ i < j
                   /\ j < k
                   /\ backendCalls[i].ok
                   /\ backendCalls[i].token = backendCalls[k].token
                   /\ backendCalls[j].token = backendCalls[k].token
                   /\ storedToken = backendCalls[k].token
    /\ \A i \in CallsOf("authenticate") :
          (~backendCalls[i].ok \/ backendCalls[i].token = <<>>) =>
             /\ CallsOf("collect") = {}
             /\ CallsOf("analyze") = {}
             /\ popup.pc = "done" =>
                   /\ popup.analysisError = "Authentication failed"
                   /\ popup.analysisResult = "null"
                   /\ ~popup.loading
             /\ popup.pc \in {"done", "storeToken"}

\* C27 witness: the stored token was refused, a new one was authenticated and
\* stored, and the analyze request was sent with it
C27_Witness ==
    /\ popup.pc = "done"
    /\ CallsOf("analyze") # {}
    /\ CallsOf("authenticate") # {}
    /\ storedToken \in AccessTokens


\* the last request failed with the error fetch rejects with when the
\* network fails
LastWasNetworkError ==
    /\ retry.last.kind = "error"
    /\ retry.last.body = <<"F", "a", "i", "l", "e", "d", " ", "t", "o", " ", "f", "e", "t", "c", "h">>

\* C28: makeRequestWithRetry makes at most maxRetries + 1 attempts, ends by
\* returning the response or throwing the last error, waits for a retry only
\* after a network error or a response with status 500, 502, 503, 504 or
\* 429, and never after a response with status 401 or 403
C28_RetryOnlyAfterRetryableErrors ==
    /\ retry.attempts <= retry.maxRetries + 1
    /\ retry.pc = "returned" =>
          /\ retry.outcome = retry.last
          /\ retry.outcome.status = 200
    /\ retry.pc = "thrown" =>
          /\ retry.outcome = retry.last
          /\ retry.outcome.status # 200
    /\ retry.pc = "delay" =>
          /\ \/ LastWasNetworkError
             \/ /\ retry.last.kind = "response"
                /\ retry.last.status \in retryableErrors
          /\ ~(retry.last.kind = "response" /\ retry.last.status \in nonRetryableErrors)


RECURSIVE FilteredParts(_, _, _)
\* the parts from position i on that have length >= 3 and are no generic
\* word, added to keywords: the loop of extractDomainKeywords with the
\* expansion step removed
FilteredParts(parts, i, keywords) ==
    IF i > Len(parts) THEN keywords
    ELSE LET part == parts[i]
             kept == Len(part) >= 3 /\ part \notin genericWords
         IN  FilteredParts(parts, i + 1, IF kept THEN SetAdd(keywords, part) ELSE keywords)

\* extractDomainKeywords with the expansion step removed
UnexpandedKeywords(domain) ==
    FilteredParts(Split(StripTld(StripWww(domain)), {".", "-", "_"}), 1, <<>>)

\* isThirdPartyDomain over the keywords without the expansion step
UnexpandedIsThirdPartyDomain(reqDomain, pgDomain) ==
    LET cleanRequestDomain == StripWww(reqDomain)
        cleanPageDomain == StripWww(pgDomain)
    IN  IF cleanRequestDomain = cleanPageDomain THEN FALSE
        ELSE IF EndsWith(cleanRequestDomain, <<".">> \o cleanPageDomain) THEN FALSE
        ELSE IF EndsWith(cleanPageDomain, <<".">> \o cleanRequestDomain) THEN FALSE
        ELSE IF getBaseDomain(cleanRequestDomain) = getBaseDomain(cleanPageDomain)
             THEN FALSE
        ELSE IF KeywordsOverlap(UnexpandedKeywords(cleanPageDomain),
                                UnexpandedKeywords(cleanRequestDomain))
             THEN FALSE
        ELSE TRUE

\* the tokens extractDomainKeywords splits the domain into, as a set
PartsOf(domain) ==
    LET parts == Split(StripTld(StripWww(domain)), {".", "-", "_"})
    IN  { parts[i] : i \in 1..Len(parts) }

====
